---- MODULE Spec2Model ----
(***************************************************************************)
(* Model of the code agent of Jira2PR: the sandboxed tool executor         *)
(* (src/code_agent/tools.py) and the conversation loop that drives it      *)
(* (src/code_agent/agent.py).                                              *)
(*                                                                         *)
(* A filesystem is a function from absolute paths (sequences of names,     *)
(* <<>> being "/") to nodes.  A path handed to a tool is a sequence of     *)
(* components; a first component "/" marks an absolute path.  A text is a  *)
(* sequence of one-character strings.                                      *)
(***************************************************************************)
EXTENDS Integers, Sequences, FiniteSets, TLC

VARIABLES fs, lastCall, lastResult, nExec,
          messages, files_changed, iteration, pc, summary, nConverse, stop_reason,
          effective_system, sent, pair

vars == <<fs, lastCall, lastResult, nExec,
          messages, files_changed, iteration, pc, summary, nConverse, stop_reason,
          effective_system, sent, pair>>

execVars == <<lastCall, lastResult, nExec>>
agentVars == <<messages, files_changed, iteration, pc, summary, nConverse, stop_reason,
               effective_system, sent, pair>>

(***************************************************************************)
(* Bounds of the model.                                                    *)
(***************************************************************************)
\* longest text written to a file by a tool call
MaxLen == 2
\* number of executor calls explored from the initial repository
MaxCalls == 2
\* number of leading rounds in which the endpoint may answer anything
ScriptLen == 2

(***************************************************************************)
(* Texts.                                                                  *)
(***************************************************************************)
Alphabet == {"x", "\n"}

RECURSIVE TextsOfLen(_)
TextsOfLen(n) ==
    IF n = 0 THEN {<<>>}
    ELSE {Append(t, c) : t \in TextsOfLen(n - 1), c \in Alphabet}

Texts == UNION {TextsOfLen(n) : n \in 0..MaxLen}

\* str.startswith
StartsWith(s, t) == Len(t) <= Len(s) /\ SubSeq(s, 1, Len(t)) = t

(***************************************************************************)
(* Names and the string form of a path.                                    *)
(***************************************************************************)
NameStr == ("r" :> <<"r">>) @@ ("r2" :> <<"r", "2">>) @@ ("o" :> <<"o">>) @@
           ("a" :> <<"a">>) @@ ("d" :> <<"d">>) @@ ("l" :> <<"l">>) @@
           (".git" :> <<".", "g", "i", "t">>)

Names == DOMAIN NameStr

\* the names in ascending string order
NameOrder == <<".git", "a", "d", "l", "o", "r", "r2">>

NameRank == [n \in Names |-> CHOOSE i \in 1..Len(NameOrder) : NameOrder[i] = n]

\* str(Path): "/" for the root, "/n1/n2/..." otherwise
RECURSIVE PathStrTail(_)
PathStrTail(p) ==
    IF p = <<>> THEN <<>>
    ELSE <<"/">> \o NameStr[Head(p)] \o PathStrTail(Tail(p))

PathStr(p) == IF p = <<>> THEN <<"/">> ELSE PathStrTail(p)

\* PurePath.relative_to succeeds: componentwise containment
IsUnder(p, base) == Len(base) <= Len(p) /\ SubSeq(p, 1, Len(base)) = base

Parent(p) == IF p = <<>> THEN <<>> ELSE SubSeq(p, 1, Len(p) - 1)

(***************************************************************************)
(* Filesystem nodes.                                                       *)
(***************************************************************************)
NoNode == [kind |-> "none", content |-> <<>>, target |-> <<>>]
DirNode == [kind |-> "dir", content |-> <<>>, target |-> <<>>]
FileNode(c) == [kind |-> "file", content |-> c, target |-> <<>>]
LinkNode(t) == [kind |-> "link", content |-> <<>>, target |-> t]

Lookup(f, p) == IF p \in DOMAIN f THEN f[p] ELSE NoNode

\* Path.resolve(): ".." and "." are folded, symlinks are followed,
\* components that do not exist are kept
RECURSIVE ResolveFrom(_, _, _)
ResolveFrom(f, cur, parts) ==
    IF parts = <<>> THEN cur
    ELSE LET c == Head(parts)
             rest == Tail(parts)
         IN IF c = "." THEN ResolveFrom(f, cur, rest)
            ELSE IF c = ".." THEN ResolveFrom(f, Parent(cur), rest)
            ELSE LET nxt == Append(cur, c)
                 IN IF Lookup(f, nxt).kind = "link"
                    THEN ResolveFrom(f, ResolveFrom(f, <<>>, Lookup(f, nxt).target), rest)
                    ELSE ResolveFrom(f, nxt, rest)

Resolve(f, p) == ResolveFrom(f, <<>>, p)

\* base / relative_path: an absolute right operand replaces the left one
Join(base, rel) ==
    IF rel # <<>> /\ Head(rel) = "/" THEN Tail(rel) ELSE base \o rel

\* Path.exists / is_file / is_dir on a path, following symlinks
Exists(f, p) == Lookup(f, Resolve(f, p)).kind # "none"
IsFile(f, p) == Lookup(f, Resolve(f, p)).kind = "file"
IsDir(f, p) == Lookup(f, Resolve(f, p)).kind = "dir"

\* the repository handed to the executor
repo_path == <<"r">>

(***************************************************************************)
(* _resolve_safe_path                                                      *)
(***************************************************************************)
resolve_safe_path(f, relative_path) ==
    LET base == Resolve(f, repo_path)
        target == Resolve(f, Join(base, relative_path))
    IN [ok |-> StartsWith(PathStr(target), PathStr(base)), target |-> target]

(***************************************************************************)
(* Result texts.  lead is the literal text the result begins with ("" when *)
(* the result is a payload that begins with file or command output), kind  *)
(* names the message, text/lines/num carry the payload.                    *)
(***************************************************************************)
Result(lead, kind, text, lines, num) ==
    [lead |-> lead, kind |-> kind, text |-> text, lines |-> lines, num |-> num]

\* "Error: ..." returned by a handler, or a ValueError turned into text
Err(kind) == Result("Error: ", kind, <<>>, <<>>, 0)
\* "Error executing <tool_name>: <exc>", the text execute_tool makes of any
\* other exception; text holds the name of the tool
ExecErr(tool_name, exc) == Result("Error executing ", exc, <<tool_name>>, <<>>, 0)
\* a handler that ends by raising exception exc with message msg; text holds
\* the class of the exception
Raise(exc, msg) == Result("raise", msg, <<exc>>, <<>>, 0)
Success(kind) == Result("Successfully ", kind, <<>>, <<>>, 0)

Line(tag, path, num, text) ==
    [tag |-> tag, path |-> path, num |-> num, text |-> text]

Ret(res, f) == [res |-> res, fs |-> f]

Has(tool_input, key) == key \in DOMAIN tool_input

(***************************************************************************)
(* Filesystem updates on resolved paths.                                   *)
(***************************************************************************)
Prefixes(p) == {SubSeq(p, 1, n) : n \in 0..Len(p)}

\* Path.mkdir(parents=True, exist_ok=True) raises when a component is a file
MkdirOk(f, p) == \A q \in Prefixes(p) : Lookup(f, q).kind \in {"none", "dir"}

MkdirP(f, p) ==
    [q \in DOMAIN f \cup Prefixes(p) |-> IF q \in DOMAIN f THEN f[q] ELSE DirNode]

\* the file p holds text c
WriteText(f, p, c) == [q \in DOMAIN f \cup {p} |-> IF q = p THEN FileNode(c) ELSE f[q]]

\* a character that UTF-8 cannot encode: a lone surrogate such as U+D800,
\* which a JSON tool input may hold as an escape
Surrogate == "U+D800"

\* str.encode succeeds
Encodable(c) == \A i \in 1..Len(c) : c[i] # Surrogate

\* Path.write_text: the file is opened for writing, which creates or empties
\* it, then the text is encoded and written; a text that cannot be encoded
\* raises UnicodeEncodeError, a ValueError, and leaves the file empty.  res
\* is what the handler returns after the write
write_text(res, f, p, c) ==
    IF Encodable(c) THEN Ret(res, WriteText(f, p, c))
    ELSE Ret(Raise("ValueError", "codec can't encode character"), WriteText(f, p, <<>>))

\* unlink that also removes the directory of the file when nothing is left in it
UnlinkPruning(f, p) ==
    LET left == [q \in DOMAIN f \ {p} |-> f[q]]
        empty == \A q \in DOMAIN left : ~(Len(q) > Len(Parent(p)) /\ IsUnder(q, Parent(p)))
    IN IF empty /\ Len(p) > 2 THEN [q \in DOMAIN left \ {Parent(p)} |-> left[q]] ELSE left

\* Path.unlink
Unlink(f, p) == [q \in DOMAIN f \ {p} |-> f[q]]

\* Path.rename of a file to a path that does not exist
Rename(f, p, q) ==
    [x \in (DOMAIN f \ {p}) \cup {q} |-> IF x = q THEN f[p] ELSE f[x]]

(***************************************************************************)
(* str.count and str.replace(old, new, 1)                                  *)
(***************************************************************************)
RECURSIVE Count(_, _)
Count(content, old) ==
    IF old = <<>> THEN Len(content) + 1
    ELSE IF Len(content) < Len(old) THEN 0
    ELSE IF StartsWith(content, old)
         THEN 1 + Count(SubSeq(content, Len(old) + 1, Len(content)), old)
         ELSE Count(Tail(content), old)

\* str.replace that puts new before the first old and keeps old
RECURSIVE ReplaceFirstKeepingOld(_, _, _)
ReplaceFirstKeepingOld(content, old, new) ==
    IF StartsWith(content, old) THEN new \o content
    ELSE IF content = <<>> THEN <<>>
    ELSE <<Head(content)>> \o ReplaceFirstKeepingOld(Tail(content), old, new)

RECURSIVE ReplaceFirst(_, _, _)
ReplaceFirst(content, old, new) ==
    IF StartsWith(content, old)
    THEN new \o SubSeq(content, Len(old) + 1, Len(content))
    ELSE IF content = <<>> THEN <<>>
    ELSE <<Head(content)>> \o ReplaceFirst(Tail(content), old, new)

\* str.splitlines for "\n" line ends
RECURSIVE SplitFrom(_, _)
SplitFrom(cur, rest) ==
    IF rest = <<>> THEN (IF cur = <<>> THEN <<>> ELSE <<cur>>)
    ELSE IF Head(rest) = "\n" THEN <<cur>> \o SplitFrom(<<>>, Tail(rest))
    ELSE SplitFrom(Append(cur, Head(rest)), Tail(rest))

SplitLines(content) == SplitFrom(<<>>, content)

(***************************************************************************)
(* File tools                                                              *)
(***************************************************************************)
\* the ValueError _resolve_safe_path raises
TraversalErr == Raise("ValueError", "Path traversal blocked")

exec_read_file(tool_input, f) ==
    IF ~Has(tool_input, "path") THEN Ret(Raise("KeyError", "missing field"), f)
    ELSE LET safe == resolve_safe_path(f, tool_input.path)
             target == safe.target
         IN IF ~safe.ok THEN Ret(TraversalErr, f)
            ELSE IF ~Exists(f, target) THEN Ret(Err("does not exist"), f)
            ELSE IF ~IsFile(f, target) THEN Ret(Err("is not a file"), f)
            ELSE LET content == Lookup(f, target).content
                 IN IF content = <<>>
                    THEN Ret(Result("(file is empty)", "empty", <<>>, <<>>, 0), f)
                    ELSE Ret(Result("", "content", content, <<>>, 0), f)

\* exec_read_file_lines that refuses an end_line beyond the last line
exec_read_file_lines_unclamped(tool_input, f) ==
    IF ~Has(tool_input, "path") THEN Ret(Raise("KeyError", "missing field"), f)
    ELSE LET safe == resolve_safe_path(f, tool_input.path)
             target == safe.target
         IN IF ~safe.ok THEN Ret(TraversalErr, f)
            ELSE IF ~Exists(f, target) THEN Ret(Err("does not exist"), f)
            ELSE IF ~IsFile(f, target) THEN Ret(Err("is not a file"), f)
            ELSE IF ~Has(tool_input, "start_line") \/ ~Has(tool_input, "end_line")
                 THEN Ret(Raise("KeyError", "missing field"), f)
            ELSE LET start == tool_input.start_line
                     end == tool_input.end_line
                     lines == SplitLines(Lookup(f, target).content)
                     last == IF end < Len(lines) THEN end ELSE Len(lines)
                 IN IF start < 1 THEN Ret(Err("start_line must be >= 1"), f)
                    ELSE IF end < start THEN Ret(Err("end_line must be >= start_line"), f)
                    ELSE IF start > Len(lines) \/ end > Len(lines)
                         THEN Ret(Err("File only has fewer lines"), f)
                    ELSE Ret(Result("", "lines", <<>>,
                                    [i \in 1..(last - start + 1) |->
                                        Line("line", <<>>, start + i - 1, lines[start + i - 1])],
                                    0), f)

exec_read_file_lines(tool_input, f) ==
    IF ~Has(tool_input, "path") THEN Ret(Raise("KeyError", "missing field"), f)
    ELSE LET safe == resolve_safe_path(f, tool_input.path)
             target == safe.target
         IN IF ~safe.ok THEN Ret(TraversalErr, f)
            ELSE IF ~Exists(f, target) THEN Ret(Err("does not exist"), f)
            ELSE IF ~IsFile(f, target) THEN Ret(Err("is not a file"), f)
            ELSE IF ~Has(tool_input, "start_line") \/ ~Has(tool_input, "end_line")
                 THEN Ret(Raise("KeyError", "missing field"), f)
            ELSE LET start == tool_input.start_line
                     end == tool_input.end_line
                     lines == SplitLines(Lookup(f, target).content)
                     last == IF end < Len(lines) THEN end ELSE Len(lines)
                 IN IF start < 1 THEN Ret(Err("start_line must be >= 1"), f)
                    ELSE IF end < start THEN Ret(Err("end_line must be >= start_line"), f)
                    ELSE IF start > Len(lines) THEN Ret(Err("File only has fewer lines"), f)
                    ELSE Ret(Result("", "lines", <<>>,
                                    [i \in 1..(last - start + 1) |->
                                        Line("line", <<>>, start + i - 1, lines[start + i - 1])],
                                    0), f)

\* exec_write_file that creates the file when it does not exist
exec_write_file_creating(tool_input, f) ==
    IF ~Has(tool_input, "path") THEN Ret(Raise("KeyError", "missing field"), f)
    ELSE LET safe == resolve_safe_path(f, tool_input.path)
             target == safe.target
         IN IF ~safe.ok THEN Ret(TraversalErr, f)
            ELSE IF Exists(f, target) /\ ~IsFile(f, target) THEN Ret(Err("is not a file"), f)
            ELSE IF ~Has(tool_input, "content") THEN Ret(Raise("KeyError", "missing field"), f)
            ELSE IF ~MkdirOk(f, Parent(target)) THEN Ret(Raise("OSError", "not a directory"), f)
            ELSE write_text(Success("wrote"), f, target, tool_input.content)

exec_write_file(tool_input, f) ==
    IF ~Has(tool_input, "path") THEN Ret(Raise("KeyError", "missing field"), f)
    ELSE LET safe == resolve_safe_path(f, tool_input.path)
             target == safe.target
         IN IF ~safe.ok THEN Ret(TraversalErr, f)
            ELSE IF ~Exists(f, target) THEN Ret(Err("does not exist, use create_file"), f)
            ELSE IF ~IsFile(f, target) THEN Ret(Err("is not a file"), f)
            ELSE IF ~Has(tool_input, "content") THEN Ret(Raise("KeyError", "missing field"), f)
            ELSE write_text(Success("wrote"), f, target, tool_input.content)

exec_create_file(tool_input, f) ==
    IF ~Has(tool_input, "path") THEN Ret(Raise("KeyError", "missing field"), f)
    ELSE LET safe == resolve_safe_path(f, tool_input.path)
             target == safe.target
         IN IF ~safe.ok THEN Ret(TraversalErr, f)
            ELSE IF Exists(f, target) THEN Ret(Err("already exists, use write_file"), f)
            ELSE IF ~MkdirOk(f, Parent(target)) THEN Ret(Raise("OSError", "not a directory"), f)
            ELSE IF ~Has(tool_input, "content")
                 THEN Ret(Raise("KeyError", "missing field"), MkdirP(f, Parent(target)))
            ELSE write_text(Success("created"),
                            MkdirP(f, Parent(target)), target, tool_input.content)

exec_patch_file(tool_input, f) ==
    IF ~Has(tool_input, "path") THEN Ret(Raise("KeyError", "missing field"), f)
    ELSE LET safe == resolve_safe_path(f, tool_input.path)
             target == safe.target
         IN IF ~safe.ok THEN Ret(TraversalErr, f)
            ELSE IF ~Exists(f, target) THEN Ret(Err("does not exist"), f)
            ELSE IF ~IsFile(f, target) THEN Ret(Err("is not a file"), f)
            ELSE IF ~Has(tool_input, "old_text") \/ ~Has(tool_input, "new_text")
                 THEN Ret(Raise("KeyError", "missing field"), f)
            ELSE LET content == Lookup(f, target).content
                     old_text == tool_input.old_text
                     new_text == tool_input.new_text
                     count == Count(content, old_text)
                 IN IF count = 0 THEN Ret(Err("old_text not found"), f)
                    ELSE IF count > 1
                         THEN Ret(Result("Error: ", "old_text found several times",
                                         <<>>, <<>>, count), f)
                    ELSE write_text(Success("patched"), f, target,
                                    ReplaceFirst(content, old_text, new_text))

\* exec_delete_file that also removes a directory and what is in it
exec_delete_file_removing_directories(tool_input, f) ==
    IF ~Has(tool_input, "path") THEN Ret(Raise("KeyError", "missing field"), f)
    ELSE LET safe == resolve_safe_path(f, tool_input.path)
             target == safe.target
         IN IF ~safe.ok THEN Ret(TraversalErr, f)
            ELSE IF ~Exists(f, target) THEN Ret(Err("does not exist"), f)
            ELSE Ret(Success("deleted"),
                     [q \in {x \in DOMAIN f : ~IsUnder(x, target)} |-> f[q]])

exec_delete_file(tool_input, f) ==
    IF ~Has(tool_input, "path") THEN Ret(Raise("KeyError", "missing field"), f)
    ELSE LET safe == resolve_safe_path(f, tool_input.path)
             target == safe.target
         IN IF ~safe.ok THEN Ret(TraversalErr, f)
            ELSE IF ~Exists(f, target) THEN Ret(Err("does not exist"), f)
            ELSE IF ~IsFile(f, target) THEN Ret(Err("is not a file, only files can be deleted"), f)
            ELSE Ret(Success("deleted"), Unlink(f, target))

\* exec_rename_file with the containment check of new_path made after the move
exec_rename_file_late_check(tool_input, f) ==
    IF ~Has(tool_input, "old_path") THEN Ret(Raise("KeyError", "missing field"), f)
    ELSE LET old == resolve_safe_path(f, tool_input.old_path)
             old_target == old.target
         IN IF ~old.ok THEN Ret(TraversalErr, f)
            ELSE IF ~Has(tool_input, "new_path") THEN Ret(Raise("KeyError", "missing field"), f)
            ELSE LET new_target ==
                         Resolve(f, Join(Resolve(f, repo_path), tool_input.new_path))
                 IN IF ~Exists(f, old_target) THEN Ret(Err("does not exist"), f)
                    ELSE IF ~IsFile(f, old_target) THEN Ret(Err("is not a file"), f)
                    ELSE IF Exists(f, new_target) THEN Ret(Err("already exists"), f)
                    ELSE IF ~MkdirOk(f, Parent(new_target)) THEN Ret(Raise("OSError", "not a directory"), f)
                    ELSE IF ~resolve_safe_path(f, tool_input.new_path).ok
                    THEN Ret(TraversalErr,
                             Rename(MkdirP(f, Parent(new_target)), old_target, new_target))
                    ELSE Ret(Success("renamed"),
                             Rename(MkdirP(f, Parent(new_target)), old_target, new_target))

\* exec_rename_file without the test of new_path
exec_rename_file_overwriting(tool_input, f) ==
    IF ~Has(tool_input, "old_path") THEN Ret(Raise("KeyError", "missing field"), f)
    ELSE LET old == resolve_safe_path(f, tool_input.old_path)
             old_target == old.target
         IN IF ~old.ok THEN Ret(TraversalErr, f)
            ELSE IF ~Has(tool_input, "new_path") THEN Ret(Raise("KeyError", "missing field"), f)
            ELSE LET new == resolve_safe_path(f, tool_input.new_path)
                     new_target == new.target
                 IN IF ~new.ok THEN Ret(TraversalErr, f)
                    ELSE IF ~Exists(f, old_target) THEN Ret(Err("does not exist"), f)
                    ELSE IF ~IsFile(f, old_target) THEN Ret(Err("is not a file"), f)
                    ELSE IF ~MkdirOk(f, Parent(new_target)) THEN Ret(Raise("OSError", "not a directory"), f)
                    ELSE Ret(Success("renamed"),
                             Rename(MkdirP(f, Parent(new_target)), old_target, new_target))

exec_rename_file(tool_input, f) ==
    IF ~Has(tool_input, "old_path") THEN Ret(Raise("KeyError", "missing field"), f)
    ELSE LET old == resolve_safe_path(f, tool_input.old_path)
             old_target == old.target
         IN IF ~old.ok THEN Ret(TraversalErr, f)
            ELSE IF ~Has(tool_input, "new_path") THEN Ret(Raise("KeyError", "missing field"), f)
            ELSE LET new == resolve_safe_path(f, tool_input.new_path)
                     new_target == new.target
                 IN IF ~new.ok THEN Ret(TraversalErr, f)
                    ELSE IF ~Exists(f, old_target) THEN Ret(Err("does not exist"), f)
                    ELSE IF ~IsFile(f, old_target) THEN Ret(Err("is not a file"), f)
                    ELSE IF Exists(f, new_target) THEN Ret(Err("already exists"), f)
                    ELSE IF ~MkdirOk(f, Parent(new_target)) THEN Ret(Raise("OSError", "not a directory"), f)
                    ELSE Ret(Success("renamed"),
                             Rename(MkdirP(f, Parent(new_target)), old_target, new_target))

(***************************************************************************)
(* Directory and search tools                                              *)
(***************************************************************************)
IGNORED_DIRS == {".git", "__pycache__", "node_modules", ".venv", "venv",
                 ".next", ".cache", "dist", "build"}

Hidden(n) == n \in IGNORED_DIRS \/ Head(NameStr[n]) = "."

\* Path.iterdir: the names in the directory a path leads to
Entries(f, directory) ==
    LET real == Resolve(f, directory)
    IN {n \in Names : Append(real, n) \in DOMAIN f}

\* sorted(..., key): the names of S in ascending order of key
RECURSIVE SortNames(_, _)
SortNames(S, key) ==
    IF S = {} THEN <<>>
    ELSE LET m == CHOOSE n \in S : \A k \in S : key[n] <= key[k]
         IN <<m>> \o SortNames(S \ {m}, key)

exec_list_directory(tool_input, f) ==
    IF ~Has(tool_input, "path") THEN Ret(Raise("KeyError", "missing field"), f)
    ELSE LET safe == resolve_safe_path(f, tool_input.path)
             target == safe.target
         IN IF ~safe.ok THEN Ret(TraversalErr, f)
            ELSE IF ~Exists(f, target) THEN Ret(Err("does not exist"), f)
            ELSE IF ~IsDir(f, target) THEN Ret(Err("is not a directory"), f)
            ELSE LET entries == SortNames({n \in Entries(f, target) : ~Hidden(n)}, NameRank)
                     lines == [i \in 1..Len(entries) |->
                                 Line(IF IsDir(f, Append(target, entries[i]))
                                      THEN "[DIR] " ELSE "[FILE]",
                                      <<entries[i]>>, 0, <<>>)]
                 IN IF lines = <<>>
                    THEN Ret(Result("(empty directory)", "empty", <<>>, <<>>, 0), f)
                    ELSE Ret(Result("", "listing", <<>>, lines, 0), f)

\* sort key of _build_tree: directories first, then by name
TreeKey(f, directory) ==
    [n \in Names |->
        (IF IsDir(f, Append(directory, n)) THEN 0 ELSE Len(NameOrder)) + NameRank[n]]

TreeEntries(f, directory) ==
    SortNames({n \in Entries(f, directory) : ~Hidden(n)}, TreeKey(f, directory))

RECURSIVE build_tree(_, _, _, _, _)
RECURSIVE BuildEntries(_, _, _, _, _, _, _)
\* the lines _build_tree appends for directory
build_tree(f, directory, prefix, max_depth, current_depth) ==
    IF current_depth >= max_depth THEN <<>>
    ELSE BuildEntries(f, directory, prefix, max_depth, current_depth,
                      TreeEntries(f, directory), 1)

\* the loop of _build_tree over entries[i..]
BuildEntries(f, directory, prefix, max_depth, current_depth, entries, i) ==
    IF i > Len(entries) THEN <<>>
    ELSE LET entry == Append(directory, entries[i])
             is_last == (i = Len(entries))
             connector == IF is_last THEN "\\-- " ELSE "|-- "
             extension == IF is_last THEN "    " ELSE "|   "
             line == Line(IF IsDir(f, entry) THEN "/" ELSE "", <<entries[i]>>,
                          current_depth, Append(prefix, connector))
             below == IF IsDir(f, entry)
                      THEN build_tree(f, entry, Append(prefix, extension),
                                      max_depth, current_depth + 1)
                      ELSE <<>>
         IN <<line>> \o below \o
            BuildEntries(f, directory, prefix, max_depth, current_depth, entries, i + 1)

\* the directories _build_tree lists (calls iterdir on), as the paths it uses
RECURSIVE TreeDirs(_, _, _, _)
TreeDirs(f, directory, max_depth, current_depth) ==
    IF current_depth >= max_depth THEN {}
    ELSE {directory} \cup
         UNION {TreeDirs(f, Append(directory, n), max_depth, current_depth + 1) :
                n \in {m \in Entries(f, directory) :
                         ~Hidden(m) /\ IsDir(f, Append(directory, m))}}

tree_cap == 500

\* the cap test with >= in place of >
exec_list_directory_tree_marking_at_cap(tool_input, f) ==
    IF ~Has(tool_input, "path") THEN Ret(Raise("KeyError", "missing field"), f)
    ELSE LET safe == resolve_safe_path(f, tool_input.path)
             target == safe.target
         IN IF ~safe.ok THEN Ret(TraversalErr, f)
            ELSE IF ~Exists(f, target) THEN Ret(Err("does not exist"), f)
            ELSE IF ~IsDir(f, target) THEN Ret(Err("is not a directory"), f)
            ELSE LET max_depth == IF Has(tool_input, "max_depth")
                                  THEN tool_input.max_depth ELSE 4
                     lines == build_tree(f, target, <<>>, max_depth, 0)
                 IN IF lines = <<>>
                    THEN Ret(Result("(empty directory)", "empty", <<>>, <<>>, 0), f)
                    ELSE IF Len(lines) >= tree_cap
                    THEN Ret(Result("", "tree",  <<>>,
                                    Append(SubSeq(lines, 1, tree_cap),
                                           Line("... (truncated", <<>>, tree_cap, <<>>)),
                                    0), f)
                    ELSE Ret(Result("", "tree", <<>>, lines, 0), f)

exec_list_directory_tree(tool_input, f) ==
    IF ~Has(tool_input, "path") THEN Ret(Raise("KeyError", "missing field"), f)
    ELSE LET safe == resolve_safe_path(f, tool_input.path)
             target == safe.target
         IN IF ~safe.ok THEN Ret(TraversalErr, f)
            ELSE IF ~Exists(f, target) THEN Ret(Err("does not exist"), f)
            ELSE IF ~IsDir(f, target) THEN Ret(Err("is not a directory"), f)
            ELSE LET max_depth == IF Has(tool_input, "max_depth")
                                  THEN tool_input.max_depth ELSE 4
                     lines == build_tree(f, target, <<>>, max_depth, 0)
                 IN IF lines = <<>>
                    THEN Ret(Result("(empty directory)", "empty", <<>>, <<>>, 0), f)
                    ELSE IF Len(lines) > tree_cap
                    THEN Ret(Result("", "tree",  <<>>,
                                    Append(SubSeq(lines, 1, tree_cap),
                                           Line("... (truncated", <<>>, tree_cap, <<>>)),
                                    0), f)
                    ELSE Ret(Result("", "tree", <<>>, lines, 0), f)

(***************************************************************************)
(* search_in_files.  A pattern is a text; "(" makes it an invalid regular  *)
(* expression, any other character matches itself.  A file_pattern is "",  *)
(* "*" or a name.                                                          *)
(***************************************************************************)
max_matches == 100

RegexValid(pattern) == \A i \in 1..Len(pattern) : pattern[i] # "("

\* regex.search(line) for a pattern of literal characters
Search(pattern, line) ==
    \E i \in 0..(Len(line) - Len(pattern)) :
        SubSeq(line, i + 1, i + Len(pattern)) = pattern

GlobMatch(file_pattern, n) == file_pattern = "*" \/ file_pattern = n

\* Path.rglob: every entry below directory whose name matches; symlinked
\* directories are yielded but not descended into
RECURSIVE RGlob(_, _, _)
RGlob(f, directory, file_pattern) ==
    {Append(directory, n) : n \in {m \in Entries(f, directory) : GlobMatch(file_pattern, m)}}
    \cup UNION {RGlob(f, Append(directory, n), file_pattern) :
                n \in {m \in Entries(f, directory) :
                         Lookup(f, Append(Resolve(f, directory), m)).kind = "dir"}}

\* order of paths: componentwise by name
RECURSIVE PathLeq(_, _)
PathLeq(p, q) ==
    IF p = <<>> THEN TRUE
    ELSE IF q = <<>> THEN FALSE
    ELSE IF Head(p) = Head(q) THEN PathLeq(Tail(p), Tail(q))
    ELSE NameRank[Head(p)] < NameRank[Head(q)]

RECURSIVE SortPaths(_)
SortPaths(S) ==
    IF S = {} THEN <<>>
    ELSE LET m == CHOOSE p \in S : \A q \in S : PathLeq(p, q)
         IN <<m>> \o SortPaths(S \ {m})

\* the match lines of one file
FileMatches(rel_path, content, pattern) ==
    LET lines == SplitLines(content)
        hits == SelectSeq([i \in 1..Len(lines) |-> i],
                          LAMBDA i : Search(pattern, lines[i]))
    IN [k \in 1..Len(hits) |-> Line("match", rel_path, hits[k], lines[hits[k]])]

\* the loop of _exec_search_in_files over files_to_search[i..]
RECURSIVE SearchFiles(_, _, _, _, _, _)
SearchFiles(f, base, files, i, pattern, matches) ==
    IF i > Len(files)
    THEN IF matches = <<>>
         THEN Result("No matches found", "no matches", <<>>, <<>>, 0)
         ELSE Result("", "matches", <<>>, matches, 0)
    ELSE LET filepath == files[i]
         IN IF ~IsFile(f, filepath)
            THEN SearchFiles(f, base, files, i + 1, pattern, matches)
            ELSE IF ~IsUnder(filepath, base)
            THEN Raise("ValueError", "not in the subpath")
            ELSE LET parts == SubSeq(filepath, Len(base) + 1, Len(filepath))
                 IN IF \E k \in 1..Len(parts) : Hidden(parts[k])
                    THEN SearchFiles(f, base, files, i + 1, pattern, matches)
                    ELSE LET content == Lookup(f, Resolve(f, filepath)).content
                             found == matches \o FileMatches(parts, content, pattern)
                         IN IF Len(found) >= max_matches
                            THEN Result("", "matches capped", <<>>,
                                        Append(SubSeq(found, 1, max_matches),
                                               Line("... (search capped", <<>>,
                                                    max_matches, <<>>)), 0)
                            ELSE SearchFiles(f, base, files, i + 1, pattern, found)

\* the files _exec_search_in_files goes through, in order
FilesToSearch(f, target, file_pattern) ==
    IF IsFile(f, target) THEN <<target>>
    ELSE SortPaths(RGlob(f, target, IF file_pattern = "" THEN "*" ELSE file_pattern))

exec_search_in_files(tool_input, f) ==
    IF ~Has(tool_input, "path") THEN Ret(Raise("KeyError", "missing field"), f)
    ELSE LET safe == resolve_safe_path(f, tool_input.path)
             target == safe.target
         IN IF ~safe.ok THEN Ret(TraversalErr, f)
            ELSE IF ~Exists(f, target) THEN Ret(Err("does not exist"), f)
            ELSE IF ~Has(tool_input, "pattern") THEN Ret(Raise("KeyError", "missing field"), f)
            ELSE LET pattern == tool_input.pattern
                     file_pattern == IF Has(tool_input, "file_pattern")
                                     THEN tool_input.file_pattern ELSE ""
                 IN IF ~RegexValid(pattern) THEN Ret(Err("Invalid regex pattern"), f)
                    ELSE Ret(SearchFiles(f, Resolve(f, repo_path),
                                         FilesToSearch(f, target, file_pattern),
                                         1, pattern, <<>>), f)

(***************************************************************************)
(* run_command.  A command is a text; the shell is modelled for the        *)
(* commands below, in the working directory repo_path.                     *)
(***************************************************************************)
CmdTrue == <<"t", "r", "u", "e">>  \* "true"
CmdSleep == <<"s", "l", "e", "e", "p", " ", "9", "9">>  \* "sleep 99"
CmdPush == <<" ", "G", "i", "t", " ", "p", "u", "s", "h">>  \* " Git push"
CmdLinkDirOut == <<"r", "m", " ", "-", "r", "f", " ", "d", ";", " ", "l", "n", " ", "-", "s", " ", "/", "o", " ", "d">>  \* "rm -rf d; ln -s /o d"
CmdLinkDirSibling == <<"r", "m", " ", "-", "r", "f", " ", "d", ";", " ", "l", "n", " ", "-", "s", " ", "/", "r", "2", " ", "d">>  \* "rm -rf d; ln -s /r2 d"
CmdLinkFileOut == <<"l", "n", " ", "-", "s", "f", " ", "/", "o", "/", "a", " ", "a">>  \* "ln -sf /o/a a"
CmdRmSibling == <<" ", "r", "m", " ", "-", "r", "f", " ", "/", "r", "2", " ">>  \* " rm -rf /r2 "
CmdRmHome == <<"r", "m", " ", "-", "r", "f", " ", "~">>  \* "rm -rf ~"
CmdReset == <<"g", "i", "t", " ", "r", "e", "s", "e", "t", " ", "-", "-", "h", "a", "r", "d", "\n">>  \* "git reset --hard\n"
\* removes a, creates l holding a line break, and fails
CmdEditFail == <<"r", "m", " ", "a", ";", "e", "c", "h", "o", ">", "l", ";", "e", "x", "i", "t", " ", "3">>  \* "rm a;echo>l;exit 3"

\* str(n) of an integer
DigitChar == <<"0", "1", "2", "3", "4", "5", "6", "7", "8", "9">>

RECURSIVE Decimal(_)
Decimal(n) ==
    IF n < 0 THEN <<"-">> \o Decimal(0 - n)
    ELSE IF n < 10 THEN <<DigitChar[n + 1]>>
    ELSE Decimal(n \div 10) \o <<DigitChar[(n % 10) + 1]>>

\* "yes|head -c N;yes|head -c M >&2;exit K": N characters on stdout, M on
\* stderr, exit code K
CmdEmit(n, m, k) ==
    <<"y", "e", "s", "|", "h", "e", "a", "d", " ", "-", "c", " ">> \o Decimal(n)
    \o <<";", "y", "e", "s", "|", "h", "e", "a", "d", " ", "-", "c", " ">> \o Decimal(m)
    \o <<" ", ">", "&", "2", ";", "e", "x", "i", "t", " ">> \o Decimal(k)

\* the first n characters of what yes prints
Yes(n) == [i \in 1..n |-> IF i % 2 = 1 THEN "y" ELSE "\n"]

EmitSizes == {0} \cup (9960..9982)
ErrSizes == {0, 1, 5}
ExitCodes == {0, 3, 127}

Commands == {CmdTrue, CmdSleep, CmdPush, CmdLinkDirOut, CmdLinkDirSibling, CmdLinkFileOut,
             CmdRmSibling, CmdRmHome, CmdReset}

\* the home directory of the user the commands run as
home == <<"o">>

BLOCKED_COMMANDS == {<<"r", "m", " ", "-", "r", "f", " ", "/">>, <<"r", "m", " ", "-", "r", "f", " ", "~">>, <<"g", "i", "t", " ", "p", "u", "s", "h">>, <<"g", "i", "t", " ", "r", "e", "s", "e", "t", " ", "-", "-", "h", "a", "r", "d">>}

command_timeout == 60
output_cap == 10000

\* str.lower on the upper-case letters that occur in Commands
Lower(t) == [i \in 1..Len(t) |-> IF t[i] = "G" THEN "g" ELSE t[i]]

Whitespace == {" ", "\n"}

\* str.strip
RECURSIVE LStrip(_)
LStrip(t) == IF t # <<>> /\ Head(t) \in Whitespace THEN LStrip(Tail(t)) ELSE t

RECURSIVE RStrip(_)
RStrip(t) ==
    IF t # <<>> /\ t[Len(t)] \in Whitespace THEN RStrip(SubSeq(t, 1, Len(t) - 1)) ELSE t

Strip(t) == RStrip(LStrip(t))

\* unlink of a file or symlink, rmtree of a directory
RemoveTree(f, p) ==
    IF Lookup(f, p).kind = "dir"
    THEN [q \in {x \in DOMAIN f : ~IsUnder(x, p)} |-> f[q]]
    ELSE [q \in DOMAIN f \ {p} |-> f[q]]

SetNode(f, p, node) == [q \in DOMAIN f \cup {p} |-> IF q = p THEN node ELSE f[q]]

Outcome(f, stdout, stderr, returncode, seconds) ==
    [fs |-> f, stdout |-> stdout, stderr |-> stderr,
     returncode |-> returncode, seconds |-> seconds]

\* subprocess.run(command, shell=True, cwd=repo_path); git reset --hard
\* puts back the committed text of a
Shell(f, command) ==
    LET cwd == Resolve(f, repo_path)
    IN IF command = CmdTrue THEN Outcome(f, <<>>, <<>>, 0, 0)
       ELSE IF command = CmdSleep THEN Outcome(f, <<>>, <<>>, 0, 99)
       ELSE IF command = CmdLinkDirOut
       THEN Outcome(SetNode(RemoveTree(f, Append(cwd, "d")), Append(cwd, "d"),
                            LinkNode(<<"o">>)), <<>>, <<>>, 0, 0)
       ELSE IF command = CmdLinkDirSibling
       THEN Outcome(SetNode(RemoveTree(f, Append(cwd, "d")), Append(cwd, "d"),
                            LinkNode(<<"r2">>)), <<>>, <<>>, 0, 0)
       ELSE IF command = CmdLinkFileOut
       THEN Outcome(SetNode(RemoveTree(f, Append(cwd, "a")), Append(cwd, "a"),
                            LinkNode(<<"o", "a">>)), <<>>, <<>>, 0, 0)
       ELSE IF command = CmdRmSibling
       THEN Outcome(RemoveTree(f, <<"r2">>), <<>>, <<>>, 0, 0)
       ELSE IF command = CmdRmHome
       THEN Outcome(RemoveTree(f, home), <<>>, <<>>, 0, 0)
       ELSE IF command = CmdReset
       THEN Outcome(SetNode(RemoveTree(f, Append(cwd, "a")), Append(cwd, "a"),
                            FileNode(<<"x">>)), <<"x">>, <<>>, 0, 0)
       ELSE IF command = CmdEditFail
       THEN LET rmOk == Lookup(f, Append(cwd, "a")).kind \in {"file", "link"}
                f1 == IF rmOk THEN RemoveTree(f, Append(cwd, "a")) ELSE f
                l == Resolve(f1, Append(cwd, "l"))
                echoOk == Lookup(f1, l).kind \in {"none", "file"}
                          /\ Lookup(f1, Parent(l)).kind = "dir"
                f2 == IF echoOk THEN WriteText(f1, l, <<"\n">>) ELSE f1
            IN Outcome(f2, <<>>, IF rmOk /\ echoOk THEN <<>> ELSE <<"x">>, 3, 0)
       ELSE IF \E n \in EmitSizes, m \in ErrSizes, k \in ExitCodes : command = CmdEmit(n, m, k)
       THEN LET e == CHOOSE e \in EmitSizes \X ErrSizes \X ExitCodes :
                         command = CmdEmit(e[1], e[2], e[3])
            IN Outcome(f, Yes(e[1]), Yes(e[2]), e[3], 0)
       ELSE Outcome(f, <<>>, <<"x">>, 127, 0)

StdoutLabel == <<"S", "T", "D", "O", "U", "T", ":", "\n">>  \* "STDOUT:\n"
StderrLabel == <<"S", "T", "D", "E", "R", "R", ":", "\n">>  \* "STDERR:\n"
ExitLabel == <<"E", "X", "I", "T", " ", "C", "O", "D", "E", ":", " ">>  \* "EXIT CODE: "
\* "\n... (output truncated at 10000 chars)"
TruncationMarker == <<"\n", ".", ".", ".", " ", "(", "o", "u", "t", "p", "u", "t", " ", "t", "r", "u", "n", "c", "a", "t", "e", "d", " ", "a", "t", " ", "1", "0", "0", "0", "0", " ", "c", "h", "a", "r", "s", ")">>

\* the labelled streams that are not empty, then the exit code
output_parts(out) ==
    (IF out.stdout # <<>> THEN <<StdoutLabel \o out.stdout>> ELSE <<>>)
    \o (IF out.stderr # <<>> THEN <<StderrLabel \o out.stderr>> ELSE <<>>)
    \o <<ExitLabel \o Decimal(out.returncode)>>

\* "\n\n".join(parts)
RECURSIVE JoinBlank(_)
JoinBlank(parts) ==
    IF Len(parts) = 1 THEN parts[1]
    ELSE parts[1] \o <<"\n", "\n">> \o JoinBlank(Tail(parts))

\* the text run_command returns for a finished command: the joined parts,
\* cut to output_cap characters and followed by the marker when longer
CommandOutput(out, f) ==
    LET output == JoinBlank(output_parts(out))
        lead == IF out.stdout # <<>> THEN "STDOUT:\n"
                ELSE IF out.stderr # <<>> THEN "STDERR:\n"
                ELSE "EXIT CODE: "
    IN IF Len(output) > output_cap
       THEN Ret(Result(lead, "output truncated",
                       SubSeq(output, 1, output_cap) \o TruncationMarker, <<>>, 0),
                out.fs)
       ELSE Ret(Result(lead, "output", output, <<>>, out.returncode), out.fs)

\* exec_run_command that compares the command as it was given
exec_run_command_exact_match(tool_input, f) ==
    IF ~Has(tool_input, "command") THEN Ret(Raise("KeyError", "missing field"), f)
    ELSE LET command == tool_input.command
         IN IF \E blocked \in BLOCKED_COMMANDS : StartsWith(command, blocked)
            THEN Ret(Err("is blocked for safety"), f)
            ELSE LET out == Shell(f, command)
                 IN IF out.seconds > command_timeout
                    THEN Ret(Err("Command timed out"), f)
                    ELSE CommandOutput(out, f)

\* exec_run_command that lets the TimeoutExpired of subprocess.run leave it
exec_run_command_timeout_raises(tool_input, f) ==
    IF ~Has(tool_input, "command") THEN Ret(Raise("KeyError", "missing field"), f)
    ELSE LET command == tool_input.command
             cmd_lower == Strip(Lower(command))
         IN IF \E blocked \in BLOCKED_COMMANDS : StartsWith(cmd_lower, blocked)
            THEN Ret(Err("is blocked for safety"), f)
            ELSE LET out == Shell(f, command)
                 IN IF out.seconds > command_timeout
                    THEN Ret(Raise("TimeoutExpired", "Command timed out"), f)
                    ELSE CommandOutput(out, f)

exec_run_command(tool_input, f) ==
    IF ~Has(tool_input, "command") THEN Ret(Raise("KeyError", "missing field"), f)
    ELSE LET command == tool_input.command
             cmd_lower == Strip(Lower(command))
         IN IF \E blocked \in BLOCKED_COMMANDS : StartsWith(cmd_lower, blocked)
            THEN Ret(Err("is blocked for safety"), f)
            ELSE LET out == Shell(f, command)
                 IN IF out.seconds > command_timeout
                    THEN Ret(Err("Command timed out"), f)
                    ELSE CommandOutput(out, f)

(***************************************************************************)
(* execute_tool                                                            *)
(***************************************************************************)
ToolNames == {"list_directory", "list_directory_tree", "search_in_files",
              "read_file", "read_file_lines", "write_file", "create_file",
              "patch_file", "delete_file", "rename_file", "run_command"}

\* dispatcher.get(tool_name) applied to the input
handler(tool_name, tool_input, f) ==
    CASE tool_name = "list_directory" -> exec_list_directory(tool_input, f)
      [] tool_name = "list_directory_tree" -> exec_list_directory_tree(tool_input, f)
      [] tool_name = "search_in_files" -> exec_search_in_files(tool_input, f)
      [] tool_name = "read_file" -> exec_read_file(tool_input, f)
      [] tool_name = "read_file_lines" -> exec_read_file_lines(tool_input, f)
      [] tool_name = "write_file" -> exec_write_file(tool_input, f)
      [] tool_name = "create_file" -> exec_create_file(tool_input, f)
      [] tool_name = "patch_file" -> exec_patch_file(tool_input, f)
      [] tool_name = "delete_file" -> exec_delete_file(tool_input, f)
      [] tool_name = "rename_file" -> exec_rename_file(tool_input, f)
      [] tool_name = "run_command" -> exec_run_command(tool_input, f)

\* execute_tool that lets the exceptions of the handlers through
execute_tool_without_try(tool_name, tool_input, f) ==
    IF tool_name \notin ToolNames THEN Ret(Err("Unknown tool"), f)
    ELSE handler(tool_name, tool_input, f)

\* the except clauses of execute_tool on the outcome r of the handler: a
\* ValueError becomes "Error: ...", any other exception "Error executing ..."
Caught(tool_name, r) ==
    IF r.res.lead # "raise" THEN r
    ELSE IF r.res.text = <<"ValueError">> THEN Ret(Err(r.res.kind), r.fs)
    ELSE Ret(ExecErr(tool_name, r.res.kind), r.fs)

\* str.lower on the names that occur in OtherNames
LowerName(tool_name) == IF tool_name = "Write_File" THEN "write_file" ELSE tool_name

\* execute_tool that looks the handler up under the lower-cased name
execute_tool_ignoring_case(tool_name, tool_input, f) ==
    IF LowerName(tool_name) \notin ToolNames THEN Ret(Err("Unknown tool"), f)
    ELSE Caught(tool_name, handler(LowerName(tool_name), tool_input, f))

\* the handler is looked up and called inside try
execute_tool(tool_name, tool_input, f) ==
    IF tool_name \notin ToolNames THEN Ret(Err("Unknown tool"), f)
    ELSE Caught(tool_name, handler(tool_name, tool_input, f))

(***************************************************************************)
(* The repository and its surroundings when a run starts:                  *)
(*   /r        the repository: a, d/a, .git/a                              *)
(*   /r2       a sibling directory whose name extends the repository's     *)
(*   /o        another directory outside the repository                    *)
(***************************************************************************)
InitFS ==
    (<<>> :> DirNode) @@
    (<<"r">> :> DirNode) @@
    (<<"r", "a">> :> FileNode(<<"x">>)) @@
    (<<"r", "d">> :> DirNode) @@
    (<<"r", "d", "a">> :> FileNode(<<"x", "\n">>)) @@
    (<<"r", ".git">> :> DirNode) @@
    (<<"r", ".git", "a">> :> FileNode(<<"x">>)) @@
    (<<"r2">> :> DirNode) @@
    (<<"r2", "a">> :> FileNode(<<"x">>)) @@
    (<<"o">> :> DirNode) @@
    (<<"o", "a">> :> FileNode(<<"x">>))

\* the paths tool calls are made with: in the repository (l does not
\* exist), above it, in the sibling, outside, and absolute
FilePaths == {<<"a">>, <<"d">>, <<"d", "a">>, <<"l">>, <<"..", "r2", "a">>,
              <<"..", "o", "a">>, <<"/", "o", "a">>}
DirPaths == {<<".">>, <<"d">>, <<"a">>, <<"..">>, <<"..", "r2">>}
RelPaths == FilePaths \cup DirPaths
\* the paths used with every text and line number
TextPaths == {<<"a">>, <<"l">>}

LineNumbers == 0..MaxLen

ListInputs == {[path |-> p] : p \in DirPaths}

TreeInputs ==
    {[path |-> p] : p \in DirPaths}
    \cup {[path |-> p, max_depth |-> 1] : p \in {<<".">>, <<"d">>}}

SearchInputs ==
    {[path |-> p, pattern |-> <<"x">>] : p \in DirPaths \cup {<<"..", "r2", "a">>}}
    \cup {[path |-> <<".">>, pattern |-> t] : t \in {<<>>, <<"(">>}}
    \cup {[path |-> <<".">>, pattern |-> <<"x">>, file_pattern |-> "a"]}

ReadInputs == {[path |-> p] : p \in FilePaths}

ReadLinesInputs ==
    {[path |-> p, start_line |-> 1, end_line |-> 1] : p \in FilePaths}
    \cup {[path |-> p, start_line |-> s, end_line |-> e] :
            p \in TextPaths, s \in LineNumbers, e \in LineNumbers}

WriteInputs ==
    {[path |-> p, content |-> <<"\n">>] : p \in FilePaths}
    \cup {[path |-> p, content |-> c] : p \in TextPaths, c \in Texts}

\* create_file also below a regular file, and without its content
CreateInputs ==
    WriteInputs \cup {[path |-> <<"a", "l">>, content |-> <<"x">>], [path |-> <<"l", "a">>]}

PatchInputs ==
    {[path |-> p, old_text |-> <<"x">>, new_text |-> <<>>] : p \in FilePaths}
    \cup {[path |-> <<"a">>, old_text |-> old, new_text |-> new] :
            old \in Texts, new \in {<<>>, <<"\n">>}}

RenamePaths == {<<"a">>, <<"d", "a">>, <<"l">>, <<"..", "r2", "a">>, <<"..", "o", "a">>,
                <<"..", "o", "l">>}

\* also to a path whose parent directory is missing
RenameInputs ==
    {[old_path |-> p, new_path |-> q] : p \in RenamePaths, q \in RenamePaths}
    \cup {[old_path |-> <<"a">>, new_path |-> <<"l", "l">>]}

NoCall == [tool_name |-> "none", tool_input |-> <<>>]
NoResult == Result("", "none", <<>>, <<>>, 0)

(***************************************************************************)
(* The executor on its own: execute_tool is called with any tool and any   *)
(* input, MaxCalls times in a row on the same repository.                  *)
(***************************************************************************)
Call(tool_name, tool_input) ==
    LET r == execute_tool(tool_name, tool_input, fs)
    IN /\ nExec < MaxCalls
       /\ fs' = r.fs
       /\ lastCall' = [tool_name |-> tool_name, tool_input |-> tool_input]
       /\ lastResult' = r.res
       /\ nExec' = nExec + 1
       /\ UNCHANGED agentVars

ListDirectory ==
    \E i \in ListInputs : Call("list_directory", i)

ListDirectoryTree ==
    \E i \in TreeInputs : Call("list_directory_tree", i)

SearchInFiles ==
    \E i \in SearchInputs : Call("search_in_files", i)

ReadFile ==
    \E i \in ReadInputs : Call("read_file", i)

ReadFileLines ==
    \E i \in ReadLinesInputs : Call("read_file_lines", i)

WriteFile ==
    \E i \in WriteInputs : Call("write_file", i)

CreateFile ==
    \E i \in CreateInputs : Call("create_file", i)

PatchFile ==
    \E i \in PatchInputs : Call("patch_file", i)

DeleteFile ==
    \E i \in ReadInputs : Call("delete_file", i)

RenameFile ==
    \E i \in RenameInputs : Call("rename_file", i)

RunCommand ==
    \E c \in Commands : Call("run_command", [command |-> c])

\* a name outside the catalogue, or an input without its fields
Malformed ==
    \E t \in ToolNames \cup {"bogus"} : Call(t, <<>>)

\* the default system prompt of the configuration
SYSTEM_PROMPT == "You are a senior software engineer AI agent."

\* the schemas offered to the endpoint, by the name of their tool
TOOL_DEFINITIONS ==
    <<"list_directory", "list_directory_tree", "search_in_files", "read_file",
      "read_file_lines", "write_file", "create_file", "patch_file", "delete_file",
      "rename_file", "run_command">>

\* what client.converse is handed: the conversation, the system prompt and
\* the tool schemas
Request(msgs, system) ==
    [messages |-> msgs, system |-> <<[text |-> system]>>,
     toolConfig |-> [tools |-> TOOL_DEFINITIONS]]

NoRequest == [messages |-> <<>>, system |-> <<>>, toolConfig |-> [tools |-> <<>>]]

\* no second invocation
NoPair == <<>>

InitAgentIdle ==
    /\ effective_system = SYSTEM_PROMPT
    /\ sent = NoRequest
    /\ pair = NoPair
    /\ messages = <<>>
    /\ files_changed = <<>>
    /\ iteration = 0
    /\ pc = "idle"
    /\ summary = <<>>
    /\ nConverse = 0
    /\ stop_reason = "none"

InitExec ==
    /\ fs = InitFS
    /\ lastCall = NoCall
    /\ lastResult = NoResult
    /\ nExec = 0
    /\ InitAgentIdle

NextExec ==
    \/ ListDirectory
    \/ ListDirectoryTree
    \/ SearchInFiles
    \/ ReadFile
    \/ ReadFileLines
    \/ WriteFile
    \/ CreateFile
    \/ PatchFile
    \/ DeleteFile
    \/ RenameFile
    \/ RunCommand
    \/ Malformed

SpecExec == InitExec /\ [][NextExec]_vars

(***************************************************************************)
(* One call of a tool that works on the text of a file, on a repository in *)
(* which the file a holds any text of up to MaxLen + 1 characters.         *)
(***************************************************************************)
FileTexts == UNION {TextsOfLen(n) : n \in 0..(MaxLen + 1)}

\* a regular file, a path that does not exist, a directory
TargetPaths == {<<"a">>, <<"l">>, <<"d">>}

LineRange == (0 - 1)..(MaxLen + 3)

InitFile ==
    /\ \E c \in FileTexts : fs = WriteText(InitFS, <<"r", "a">>, c)
    /\ lastCall = NoCall
    /\ lastResult = NoResult
    /\ nExec = 0
    /\ InitAgentIdle

PatchOnce ==
    /\ nExec = 0
    /\ \E p \in TargetPaths, old \in FileTexts, new \in {<<>>, <<"\n">>, <<"x", "x">>} :
          Call("patch_file", [path |-> p, old_text |-> old, new_text |-> new])

ReadLinesOnce ==
    /\ nExec = 0
    /\ \E p \in TargetPaths, s \in LineRange, e \in LineRange :
          Call("read_file_lines", [path |-> p, start_line |-> s, end_line |-> e])

NextFile ==
    \/ PatchOnce
    \/ ReadLinesOnce

SpecFile == InitFile /\ [][NextFile]_vars

(***************************************************************************)
(* One run_command call whose command prints given amounts of text on      *)
(* stdout and stderr and exits with a given code.                          *)
(***************************************************************************)
EmitOnce ==
    /\ nExec = 0
    /\ \E n \in EmitSizes, m \in ErrSizes, k \in ExitCodes :
          Call("run_command", [command |-> CmdEmit(n, m, k)])

NextCommand == EmitOnce

SpecCommand == InitExec /\ [][NextCommand]_vars

(***************************************************************************)
(* The conversation loop (agent.py).  A text of the conversation is a      *)
(* sequence of strings; a content block is a record with the field text or *)
(* the field toolUse or the field toolResult, as in the Converse API.      *)
(***************************************************************************)
MAX_AGENT_ITERATIONS == 30

Placeholder == <<"(no summary provided)">>
ExhaustedSummary ==
    <<"Agent reached the maximum number of iterations. Some changes may be incomplete.">>

TextBlock(t) == [text |-> t]
ToolUse(id, name, input) ==
    [toolUse |-> [toolUseId |-> id, name |-> name, input |-> input]]
ToolResult(id, res) ==
    [toolResult |-> [toolUseId |-> id, content |-> <<[text |-> res]>>]]

Message(role, content) == [role |-> role, content |-> content]

\* "\n".join(parts)
RECURSIVE JoinLines(_)
JoinLines(parts) ==
    IF parts = <<>> THEN <<>>
    ELSE IF Len(parts) = 1 THEN parts[1]
    ELSE parts[1] \o <<"\n">> \o JoinLines(Tail(parts))

\* _extract_text with the parts put together without a separator
RECURSIVE Concat(_)
Concat(parts) == IF parts = <<>> THEN <<>> ELSE Head(parts) \o Concat(Tail(parts))

extract_text_concat(message) ==
    LET blocks == SelectSeq(message.content, LAMBDA b : Has(b, "text"))
        parts == [i \in 1..Len(blocks) |-> blocks[i].text]
    IN IF parts # <<>> THEN Concat(parts) ELSE Placeholder

\* _extract_text
extract_text(message) ==
    LET blocks == SelectSeq(message.content, LAMBDA b : Has(b, "text"))
        parts == [i \in 1..Len(blocks) |-> blocks[i].text]
    IN IF parts # <<>> THEN JoinLines(parts) ELSE Placeholder

\* result_text.startswith("Error")
StartsWithError(res) ==
    \/ res.lead \in {"Error: ", "Error executing ", "Error running command: "}
    \/ res.lead = "" /\ StartsWith(res.text, <<"E", "r", "r", "o", "r">>)

Change(tag, path, new_path) == [tag |-> tag, path |-> path, new_path |-> new_path]

\* Track that records the path of every tool
TrackEveryTool(tool_name, tool_input) ==
    IF tool_name = "delete_file"
    THEN <<Change("(deleted) ", tool_input.path, <<>>)>>
    ELSE IF tool_name = "rename_file"
    THEN <<Change("(renamed) ", tool_input.old_path, tool_input.new_path)>>
    ELSE IF Has(tool_input, "path")
    THEN <<Change("", tool_input.path, <<>>)>>
    ELSE <<>>

\* Track that also records the commands that were run
TrackCommands(tool_name, tool_input) ==
    IF tool_name \in {"write_file", "create_file", "patch_file"}
    THEN <<Change("", tool_input.path, <<>>)>>
    ELSE IF tool_name = "delete_file"
    THEN <<Change("(deleted) ", tool_input.path, <<>>)>>
    ELSE IF tool_name = "rename_file"
    THEN <<Change("(renamed) ", tool_input.old_path, tool_input.new_path)>>
    ELSE IF tool_name = "run_command"
    THEN <<Change("(command) ", tool_input.command, <<>>)>>
    ELSE <<>>

\* the entry _process_tool_calls appends to files_changed for a call that
\* did not return an error, <<>> if it appends none
Track(tool_name, tool_input) ==
    IF tool_name \in {"write_file", "create_file", "patch_file"}
    THEN <<Change("", tool_input.path, <<>>)>>
    ELSE IF tool_name = "delete_file"
    THEN <<Change("(deleted) ", tool_input.path, <<>>)>>
    ELSE IF tool_name = "rename_file"
    THEN <<Change("(renamed) ", tool_input.old_path, tool_input.new_path)>>
    ELSE <<>>

\* NextState that records the change of a call whatever its result
NextStateTrackingErrors(st, tool, r) ==
    [fs |-> r.fs,
     files_changed |-> st.files_changed \o
         (IF tool.name \in {"write_file", "create_file", "patch_file", "delete_file"}
             /\ ~Has(tool.input, "path")
          THEN <<>> ELSE Track(tool.name, tool.input)),
     tool_results |-> Append(st.tool_results, ToolResult(tool.toolUseId, r.res)),
     calls |-> Append(st.calls, [tool_name |-> tool.name, tool_input |-> tool.input])]

\* NextState that keeps one record per path
NextStateDeduplicating(st, tool, r) ==
    LET new == IF ~StartsWithError(r.res) THEN Track(tool.name, tool.input) ELSE <<>>
        known == \E i \in 1..Len(st.files_changed) : <<st.files_changed[i]>> = new
    IN [fs |-> r.fs,
        files_changed |-> IF known THEN st.files_changed ELSE st.files_changed \o new,
        tool_results |-> Append(st.tool_results, ToolResult(tool.toolUseId, r.res)),
        calls |-> Append(st.calls, [tool_name |-> tool.name, tool_input |-> tool.input])]

NextState(st, tool, r) ==
    [fs |-> r.fs,
     files_changed |-> st.files_changed \o
         (IF ~StartsWithError(r.res) THEN Track(tool.name, tool.input) ELSE <<>>),
     tool_results |-> Append(st.tool_results, ToolResult(tool.toolUseId, r.res)),
     calls |-> Append(st.calls, [tool_name |-> tool.name, tool_input |-> tool.input])]

\* _process_tool_calls that goes through the blocks from the last to the first
RECURSIVE process_tool_calls_backwards(_, _, _)
process_tool_calls_backwards(content, i, st) ==
    IF i > Len(content) THEN st
    ELSE LET block == content[Len(content) + 1 - i]
         IN IF ~Has(block, "toolUse")
            THEN process_tool_calls_backwards(content, i + 1, st)
            ELSE process_tool_calls_backwards(content, i + 1,
                     NextState(st, block.toolUse,
                               execute_tool(block.toolUse.name, block.toolUse.input, st.fs)))

\* _process_tool_calls that leaves out the result of a call that failed
RECURSIVE process_tool_calls_dropping_errors(_, _, _)
process_tool_calls_dropping_errors(content, i, st) ==
    IF i > Len(content) THEN st
    ELSE IF ~Has(content[i], "toolUse")
    THEN process_tool_calls_dropping_errors(content, i + 1, st)
    ELSE LET tool == content[i].toolUse
             r == execute_tool(tool.name, tool.input, st.fs)
         IN process_tool_calls_dropping_errors(content, i + 1,
                IF StartsWithError(r.res) THEN st ELSE NextState(st, tool, r))

\* _process_tool_calls that gives up the round at the first call that failed
RECURSIVE process_tool_calls_stopping_at_error(_, _, _)
process_tool_calls_stopping_at_error(content, i, st) ==
    IF i > Len(content) THEN st
    ELSE IF ~Has(content[i], "toolUse")
    THEN process_tool_calls_stopping_at_error(content, i + 1, st)
    ELSE LET tool == content[i].toolUse
             r == execute_tool(tool.name, tool.input, st.fs)
         IN IF StartsWithError(r.res) THEN NextState(st, tool, r)
            ELSE process_tool_calls_stopping_at_error(content, i + 1, NextState(st, tool, r))

\* _process_tool_calls that undoes the round so far when a call fails
RECURSIVE rolling_back(_, _, _, _)
rolling_back(content, i, st, st0) ==
    IF i > Len(content) THEN st
    ELSE IF ~Has(content[i], "toolUse") THEN rolling_back(content, i + 1, st, st0)
    ELSE LET tool == content[i].toolUse
             r == execute_tool(tool.name, tool.input, st.fs)
             nxt == NextState(st, tool, r)
         IN rolling_back(content, i + 1,
                IF StartsWithError(r.res)
                THEN [nxt EXCEPT !.fs = st0.fs, !.files_changed = st0.files_changed]
                ELSE nxt, st0)

process_tool_calls_rolling_back(content, i, st) == rolling_back(content, i, st, st)

\* _process_tool_calls, from block i of the assistant message on; st holds
\* the filesystem, files_changed and the results built so far
RECURSIVE process_tool_calls(_, _, _)
process_tool_calls(content, i, st) ==
    IF i > Len(content) THEN st
    ELSE IF ~Has(content[i], "toolUse") THEN process_tool_calls(content, i + 1, st)
    ELSE LET tool == content[i].toolUse
             r == execute_tool(tool.name, tool.input, st.fs)
         IN process_tool_calls(content, i + 1, NextState(st, tool, r))

(***************************************************************************)
(* The replies of the endpoint.  In the first ScriptLen rounds it answers  *)
(* with any reply of Script, afterwards with any reply of Later.           *)
(***************************************************************************)
Reply(stopReason, content) ==
    [stopReason |-> stopReason, message |-> Message("assistant", content)]

ReadA == ToolUse("t1", "read_file", [path |-> <<"a">>])
ReadDA == ToolUse("t1", "read_file", [path |-> <<"d", "a">>])
ReadDAAgain == ToolUse("t3", "read_file", [path |-> <<"d", "a">>])
CreateL == ToolUse("t1", "create_file", [path |-> <<"l">>, content |-> <<"x">>])
ReadL == ToolUse("t2", "read_file", [path |-> <<"l">>])
PatchL == ToolUse("t3", "patch_file",
                  [path |-> <<"l">>, old_text |-> <<"x">>, new_text |-> <<"\n">>])
WriteL == ToolUse("t4", "write_file", [path |-> <<"l">>, content |-> <<"x", "x">>])
WriteA == ToolUse("t1", "write_file", [path |-> <<"a">>, content |-> <<"\n">>])
DeleteA == ToolUse("t2", "delete_file", [path |-> <<"a">>])
RenameDAtoA == ToolUse("t3", "rename_file",
                       [old_path |-> <<"d", "a">>, new_path |-> <<"a">>])
Bogus == ToolUse("t4", "bogus", <<>>)
LinkSibling == ToolUse("t2", "run_command", [command |-> CmdLinkDirSibling])
LinkOut == ToolUse("t2", "run_command", [command |-> CmdLinkDirOut])

PlanRound == <<TextBlock(<<"plan">>), CreateL, ReadL, PatchL, WriteL>>

\* two rounds of calls that fail, each for another reason, between two
\* calls that succeed
WriteDATwice == ToolUse("e1", "write_file", [path |-> <<"d", "a">>, content |-> <<"x", "x">>])
ReadMissing == ToolUse("e2", "read_file", [path |-> <<"d", "l">>])
PatchAmbiguous == ToolUse("e3", "patch_file",
                          [path |-> <<"d", "a">>, old_text |-> <<"x">>, new_text |-> <<>>])
ReadOutside == ToolUse("e4", "read_file", [path |-> <<"..", "o", "a">>])
DeleteDA == ToolUse("e5", "delete_file", [path |-> <<"d", "a">>])

FileErrorsRound == <<WriteDATwice, ReadMissing, PatchAmbiguous, ReadOutside, DeleteDA>>

SearchBadRegex == ToolUse("e1", "search_in_files", [path |-> <<".">>, pattern |-> <<"(">>])
Sleep == ToolUse("e2", "run_command", [command |-> CmdSleep])
Unknown == ToolUse("e3", "bogus", <<>>)
WriteNoContent == ToolUse("e4", "write_file", [path |-> <<"a">>])
WriteAAgain == ToolUse("e5", "write_file", [path |-> <<"a">>, content |-> <<"x", "x">>])

OtherErrorsRound == <<SearchBadRegex, Sleep, Unknown, WriteNoContent, WriteAAgain>>

ToolUseReplies ==
    {Reply("tool_use", <<ReadA>>),
     Reply("tool_use", PlanRound),
     Reply("tool_use", <<ReadDA, LinkSibling, ReadDAAgain>>),
     Reply("tool_use", <<ReadDA, LinkOut, ReadDAAgain>>),
     Reply("tool_use", <<WriteA, DeleteA, RenameDAtoA, Bogus>>),
     Reply("tool_use", FileErrorsRound),
     Reply("tool_use", OtherErrorsRound),
     Reply("tool_use", <<TextBlock(<<"thinking">>)>>)}

EndTurnReplies ==
    {Reply("end_turn", <<TextBlock(<<"done">>)>>),
     Reply("end_turn", <<TextBlock(<<"did">>), DeleteA, TextBlock(<<"this">>)>>),
     Reply("end_turn", <<TextBlock(Placeholder)>>),
     Reply("end_turn", <<>>)}

OtherReplies ==
    {Reply("max_tokens", <<TextBlock(<<"cut">>), TextBlock(<<"off">>)>>),
     Reply("max_tokens", <<DeleteA>>)}

Script == ToolUseReplies \cup EndTurnReplies \cup OtherReplies

Later == {Reply("tool_use", <<WriteA>>),
          Reply("end_turn", <<TextBlock(<<"done">>)>>),
          Reply("max_tokens", <<>>)}

Replies == IF iteration <= ScriptLen THEN Script ELSE Later

(***************************************************************************)
(* run_agent: one action per outcome of the call of the endpoint           *)
(***************************************************************************)
Running == pc = "running"

\* for iteration in range(1, MAX_AGENT_ITERATIONS + 1): another round follows
LoopContinuesOffByOne(it) == it < MAX_AGENT_ITERATIONS + 1

LoopContinues(it) == it < MAX_AGENT_ITERATIONS

\* stop reason end_turn: the loop returns the text of the reply
\* an end of turn whose tool-use blocks are executed before the run returns
EndTurnRunningTools ==
    \E reply \in Replies :
        /\ Running
        /\ reply.stopReason = "end_turn"
        /\ stop_reason' = reply.stopReason
        /\ sent' = Request(messages, effective_system)
        /\ UNCHANGED <<effective_system, pair>>
        /\ nConverse' = nConverse + 1
        /\ messages' = Append(messages, reply.message)
        /\ summary' = extract_text(reply.message)
        /\ pc' = "done"
        /\ LET st == process_tool_calls(reply.message.content, 1,
                        [fs |-> fs, files_changed |-> files_changed,
                         tool_results |-> <<>>, calls |-> <<>>])
           IN /\ fs' = st.fs
              /\ files_changed' = st.files_changed
        /\ UNCHANGED <<iteration, execVars>>

EndTurn ==
    \E reply \in Replies :
        /\ Running
        /\ reply.stopReason = "end_turn"
        /\ stop_reason' = reply.stopReason
        /\ sent' = Request(messages, effective_system)
        /\ UNCHANGED <<effective_system, pair>>
        /\ nConverse' = nConverse + 1
        /\ messages' = Append(messages, reply.message)
        /\ summary' = extract_text(reply.message)
        /\ pc' = "done"
        /\ UNCHANGED <<fs, files_changed, iteration, execVars>>

\* a round that appends no user message when no tool was called
ToolUseRoundSkippingEmptyResults ==
    \E reply \in Replies :
        /\ Running
        /\ reply.stopReason = "tool_use"
        /\ stop_reason' = reply.stopReason
        /\ sent' = Request(messages, effective_system)
        /\ UNCHANGED <<effective_system, pair>>
        /\ LET st == process_tool_calls(reply.message.content, 1,
                        [fs |-> fs, files_changed |-> files_changed,
                         tool_results |-> <<>>, calls |-> <<>>])
               n == Len(st.calls)
           IN /\ nConverse' = nConverse + 1
              /\ messages' = IF st.tool_results = <<>> THEN Append(messages, reply.message)
                             ELSE messages \o
                                  <<reply.message, Message("user", st.tool_results)>>
              /\ fs' = st.fs
              /\ files_changed' = st.files_changed
              /\ nExec' = nExec + n
              /\ lastCall' = IF n = 0 THEN lastCall ELSE st.calls[n]
              /\ lastResult' = IF n = 0 THEN lastResult
                               ELSE st.tool_results[n].toolResult.content[1].text
              /\ IF LoopContinues(iteration)
                 THEN /\ iteration' = iteration + 1
                      /\ UNCHANGED <<pc, summary>>
                 ELSE /\ pc' = "exhausted"
                      /\ summary' = ExhaustedSummary
                      /\ UNCHANGED iteration

\* a round that keeps the prompt and the last exchange only
ToolUseRoundTrimming ==
    \E reply \in Replies :
        /\ Running
        /\ reply.stopReason = "tool_use"
        /\ stop_reason' = reply.stopReason
        /\ sent' = Request(messages, effective_system)
        /\ UNCHANGED <<effective_system, pair>>
        /\ LET st == process_tool_calls(reply.message.content, 1,
                        [fs |-> fs, files_changed |-> files_changed,
                         tool_results |-> <<>>, calls |-> <<>>])
               n == Len(st.calls)
           IN /\ nConverse' = nConverse + 1
              /\ messages' = <<messages[1]>> \o
                     <<reply.message, Message("user", st.tool_results)>>
              /\ fs' = st.fs
              /\ files_changed' = st.files_changed
              /\ nExec' = nExec + n
              /\ lastCall' = IF n = 0 THEN lastCall ELSE st.calls[n]
              /\ lastResult' = IF n = 0 THEN lastResult
                               ELSE st.tool_results[n].toolResult.content[1].text
              /\ IF LoopContinues(iteration)
                 THEN /\ iteration' = iteration + 1
                      /\ UNCHANGED <<pc, summary>>
                 ELSE /\ pc' = "exhausted"
                      /\ summary' = ExhaustedSummary
                      /\ UNCHANGED iteration

\* a round after which the counter is advanced twice
ToolUseRoundSkippingARound ==
    \E reply \in Replies :
        /\ Running
        /\ reply.stopReason = "tool_use"
        /\ stop_reason' = reply.stopReason
        /\ sent' = Request(messages, effective_system)
        /\ UNCHANGED <<effective_system, pair>>
        /\ LET st == process_tool_calls(reply.message.content, 1,
                        [fs |-> fs, files_changed |-> files_changed,
                         tool_results |-> <<>>, calls |-> <<>>])
               n == Len(st.calls)
           IN /\ nConverse' = nConverse + 1
              /\ messages' = messages \o
                     <<reply.message, Message("user", st.tool_results)>>
              /\ fs' = st.fs
              /\ files_changed' = st.files_changed
              /\ nExec' = nExec + n
              /\ lastCall' = IF n = 0 THEN lastCall ELSE st.calls[n]
              /\ lastResult' = IF n = 0 THEN lastResult
                               ELSE st.tool_results[n].toolResult.content[1].text
              /\ IF LoopContinues(iteration)
                 THEN /\ iteration' = iteration + 2
                      /\ UNCHANGED <<pc, summary>>
                 ELSE /\ pc' = "exhausted"
                      /\ summary' = ExhaustedSummary
                      /\ UNCHANGED iteration

\* stop reason tool_use: the tool calls are executed and their results
\* appended; after round MAX_AGENT_ITERATIONS the loop ends
\* a round that runs no tool when no call of the endpoint follows it
ToolUseRoundIdleAtTheCap ==
    \E reply \in Replies :
        /\ Running
        /\ reply.stopReason = "tool_use"
        /\ stop_reason' = reply.stopReason
        /\ sent' = Request(messages, effective_system)
        /\ UNCHANGED <<effective_system, pair>>
        /\ LET st == IF LoopContinues(iteration)
                     THEN process_tool_calls(reply.message.content, 1,
                              [fs |-> fs, files_changed |-> files_changed,
                               tool_results |-> <<>>, calls |-> <<>>])
                     ELSE [fs |-> fs, files_changed |-> files_changed,
                           tool_results |-> <<>>, calls |-> <<>>]
               n == Len(st.calls)
           IN /\ nConverse' = nConverse + 1
              /\ messages' = messages \o
                     <<reply.message, Message("user", st.tool_results)>>
              /\ fs' = st.fs
              /\ files_changed' = st.files_changed
              /\ nExec' = nExec + n
              /\ lastCall' = IF n = 0 THEN lastCall ELSE st.calls[n]
              /\ lastResult' = IF n = 0 THEN lastResult
                               ELSE st.tool_results[n].toolResult.content[1].text
              /\ IF LoopContinues(iteration)
                 THEN /\ iteration' = iteration + 1
                      /\ UNCHANGED <<pc, summary>>
                 ELSE /\ pc' = "exhausted"
                      /\ summary' = ExhaustedSummary
                      /\ UNCHANGED iteration

ToolUseRound ==
    \E reply \in Replies :
        /\ Running
        /\ reply.stopReason = "tool_use"
        /\ stop_reason' = reply.stopReason
        /\ sent' = Request(messages, effective_system)
        /\ UNCHANGED <<effective_system, pair>>
        /\ LET st == process_tool_calls(reply.message.content, 1,
                        [fs |-> fs, files_changed |-> files_changed,
                         tool_results |-> <<>>, calls |-> <<>>])
               n == Len(st.calls)
           IN /\ nConverse' = nConverse + 1
              /\ messages' = messages \o
                     <<reply.message, Message("user", st.tool_results)>>
              /\ fs' = st.fs
              /\ files_changed' = st.files_changed
              /\ nExec' = nExec + n
              /\ lastCall' = IF n = 0 THEN lastCall ELSE st.calls[n]
              /\ lastResult' = IF n = 0 THEN lastResult
                               ELSE st.tool_results[n].toolResult.content[1].text
              /\ IF LoopContinues(iteration)
                 THEN /\ iteration' = iteration + 1
                      /\ UNCHANGED <<pc, summary>>
                 ELSE /\ pc' = "exhausted"
                      /\ summary' = ExhaustedSummary
                      /\ UNCHANGED iteration

\* an unexpected stop reason after which the loop goes on with the next round
UnexpectedStopGoesOn ==
    \E reply \in Replies :
        /\ Running
        /\ reply.stopReason \notin {"end_turn", "tool_use"}
        /\ stop_reason' = reply.stopReason
        /\ sent' = Request(messages, effective_system)
        /\ UNCHANGED <<effective_system, pair>>
        /\ nConverse' = nConverse + 1
        /\ messages' = Append(messages, reply.message)
        /\ IF LoopContinues(iteration)
           THEN /\ iteration' = iteration + 1
                /\ UNCHANGED <<pc, summary>>
           ELSE /\ pc' = "exhausted"
                /\ summary' = ExhaustedSummary
                /\ UNCHANGED iteration
        /\ UNCHANGED <<fs, files_changed, execVars>>

\* any other stop reason: treated as done
UnexpectedStop ==
    \E reply \in Replies :
        /\ Running
        /\ reply.stopReason \notin {"end_turn", "tool_use"}
        /\ stop_reason' = reply.stopReason
        /\ sent' = Request(messages, effective_system)
        /\ UNCHANGED <<effective_system, pair>>
        /\ nConverse' = nConverse + 1
        /\ messages' = Append(messages, reply.message)
        /\ summary' = extract_text(reply.message)
        /\ pc' = "done"
        /\ UNCHANGED <<fs, files_changed, iteration, execVars>>

\* client.converse raises, is called again and raises again
TransportFailureRetriedOnce ==
    /\ Running
    /\ nConverse' = nConverse + 2
    /\ pc' = "failed"
    /\ sent' = Request(messages, effective_system)
    /\ UNCHANGED <<effective_system, pair>>
    /\ UNCHANGED <<fs, files_changed, iteration, messages, summary, stop_reason, execVars>>

\* a failure of client.converse after which the repository is put back as it
\* was when the run started
TransportFailureRollingBack ==
    /\ Running
    /\ nConverse' = nConverse + 1
    /\ pc' = "failed"
    /\ sent' = Request(messages, effective_system)
    /\ fs' = InitFS
    /\ UNCHANGED <<effective_system, pair>>
    /\ UNCHANGED <<files_changed, iteration, messages, summary, stop_reason, execVars>>

\* client.converse raises: the exception leaves run_agent
TransportFailure ==
    /\ Running
    /\ nConverse' = nConverse + 1
    /\ pc' = "failed"
    /\ sent' = Request(messages, effective_system)
    /\ UNCHANGED <<effective_system, pair>>
    /\ UNCHANGED <<fs, files_changed, iteration, messages, summary, stop_reason, execVars>>

\* what the caller of run_agent receives: the pair (summary, files_changed)
\* of a return statement, nothing when an exception leaves the function
NoReturn == <<>>
Returned == IF pc \in {"done", "exhausted"} THEN <<summary, files_changed>> ELSE NoReturn

\* the first message: the default prompt built from the ticket, or the
\* prompt of the caller
\* system_prompt or SYSTEM_PROMPT
OrDefault(system_prompt) ==
    IF system_prompt \in {"None", ""} THEN SYSTEM_PROMPT ELSE system_prompt

\* the system_prompt arguments run_agent is called with: none given with
\* the default prompt, one given with the prompt of the caller
SystemPromptFor(user_prompt) ==
    IF user_prompt = <<"custom prompt">> THEN "custom system prompt" ELSE "None"

Prompts == {<<"Here is the Jira ticket you need to implement:", "ticket">>,
            <<"custom prompt">>}

Init ==
    /\ fs = InitFS
    /\ lastCall = NoCall
    /\ lastResult = NoResult
    /\ nExec = 0
    /\ \E user_prompt \in Prompts :
          /\ messages = <<Message("user", <<TextBlock(user_prompt)>>)>>
          /\ effective_system = OrDefault(SystemPromptFor(user_prompt))
    /\ files_changed = <<>>
    /\ iteration = 1
    /\ pc = "running"
    /\ summary = <<>>
    /\ nConverse = 0
    /\ stop_reason = "none"
    /\ sent = NoRequest
    /\ pair = NoPair

Next ==
    \/ EndTurn
    \/ ToolUseRound
    \/ UnexpectedStop
    \/ TransportFailure

Spec == Init /\ [][Next]_vars

\* run_agent is one thread of straight-line code: while it is running, the
\* call of the endpoint it is at returns or raises, so a step is taken
SpecLive == Init /\ [][Next]_vars /\ WF_vars(Next)

(***************************************************************************)
(* Two invocations of run_agent in two threads of one process, on one      *)
(* filesystem.  Invocation 1 works on repo_path, invocation 2 on another   *)
(* root.  Each makes the tool calls its endpoint asks for, one after the   *)
(* other; a step is one call of execute_tool by one of the two.  pair[i]   *)
(* holds what invocation i owns: its root, the calls its endpoint asks     *)
(* for, the position in them, its tool results and its files_changed.      *)
(***************************************************************************)
\* the roots of the second invocation: a sibling whose name extends that of
\* repo_path, and one whose name does not
PeerRoots == {<<"r2">>, <<"o">>}

\* a path with the names of repo_path and of root other exchanged
SwapPath(p, other) ==
    IF p = <<>> THEN p
    ELSE IF Head(p) = repo_path[1] THEN other \o Tail(p)
    ELSE IF Head(p) = other[1] THEN repo_path \o Tail(p)
    ELSE p

SwapFS(f, other) ==
    [q \in {SwapPath(x, other) : x \in DOMAIN f} |->
        LET node == f[SwapPath(q, other)]
        IN IF node.kind = "link" THEN LinkNode(SwapPath(node.target, other)) ELSE node]

\* execute_tool(tool_name, tool_input, root).  The handlers use the root
\* only as the directory the paths start from, so for a call whose paths
\* stay below the root the outcome in another root is that in repo_path
\* with the two names exchanged
execute_tool_in(root, tool_name, tool_input, f) ==
    IF root = repo_path THEN execute_tool(tool_name, tool_input, f)
    ELSE LET r == execute_tool(tool_name, tool_input, SwapFS(f, root))
         IN Ret(r.res, SwapFS(r.fs, root))

ReadSibling == ToolUse("p1", "read_file", [path |-> <<"..", "r2", "a">>])
WriteSibling == ToolUse("p1", "write_file",
                        [path |-> <<"..", "r2", "a">>, content |-> <<"x", "x">>])
LinkFile == ToolUse("p1", "run_command", [command |-> CmdLinkFileOut])
SearchAll == ToolUse("p2", "search_in_files", [path |-> <<".">>, pattern |-> <<>>])

\* the calls the endpoint of invocation 1 asks for
FirstScripts ==
    {<<ReadA, WriteA>>,
     <<ReadDA, DeleteA, RenameDAtoA>>,
     <<ReadSibling, WriteA>>,
     <<WriteSibling, ReadA>>,
     <<LinkFile, SearchAll>>}

\* the calls the endpoint of invocation 2 asks for: all on paths below its
\* root
PeerScripts ==
    {<<WriteA, ReadA>>,
     <<ReadA, DeleteA>>,
     <<CreateL, WriteAAgain, ReadA>>}

Invocation(root, script) ==
    [root |-> root, script |-> script, next |-> 1,
     tool_results |-> <<>>, files_changed |-> <<>>]

\* what one pass of the loop of _process_tool_calls does to the invocation
AfterCall(inv, r) ==
    LET tool == inv.script[inv.next].toolUse
    IN [inv EXCEPT
          !.next = @ + 1,
          !.tool_results = Append(@, ToolResult(tool.toolUseId, r.res)),
          !.files_changed = @ \o (IF ~StartsWithError(r.res)
                                   THEN Track(tool.name, tool.input) ELSE <<>>)]

PairCall(i) ==
    /\ pair # NoPair
    /\ pair[i].next <= Len(pair[i].script)
    /\ LET tool == pair[i].script[pair[i].next].toolUse
           r == execute_tool_in(pair[i].root, tool.name, tool.input, fs)
       IN /\ fs' = r.fs
          /\ pair' = [pair EXCEPT ![i] = AfterCall(pair[i], r)]
    /\ UNCHANGED <<execVars, messages, files_changed, iteration, pc, summary,
                   nConverse, stop_reason, effective_system, sent>>

FirstCalls == PairCall(1)

PeerCalls == PairCall(2)

InitPair ==
    /\ fs = InitFS
    /\ lastCall = NoCall
    /\ lastResult = NoResult
    /\ nExec = 0
    /\ messages = <<>>
    /\ files_changed = <<>>
    /\ iteration = 0
    /\ pc = "idle"
    /\ summary = <<>>
    /\ nConverse = 0
    /\ stop_reason = "none"
    /\ effective_system = SYSTEM_PROMPT
    /\ sent = NoRequest
    /\ \E first \in FirstScripts, peer \in PeerScripts, root \in PeerRoots :
          pair = <<Invocation(repo_path, first), Invocation(root, peer)>>

NextPair ==
    \/ FirstCalls
    \/ PeerCalls

SpecPair == InitPair /\ [][NextPair]_vars

(***************************************************************************)
(* Path containment                                                        *)
(***************************************************************************)
PathTools == ToolNames \ {"run_command"}

\* the paths a call supplies
SuppliedPaths(call) ==
    {call.tool_input[k] : k \in DOMAIN call.tool_input \cap {"path", "old_path", "new_path"}}

\* the canonical join of the repository root and p in filesystem f
Canonical(f, p) == Resolve(f, Join(Resolve(f, repo_path), p))

\* p leads to a place that is neither the root nor below it
Escapes(f, p) == ~IsUnder(Canonical(f, p), Resolve(f, repo_path))

IsTraversalError(res) == res.lead = "Error: " /\ res.kind = "Path traversal blocked"

\* C1: a call of a path-taking tool with a path whose canonical target is
\* neither the root nor below the root returns a traversal error.
C1_EscapingPathRejected ==
    [][(/\ lastCall'.tool_name \in PathTools
        /\ \E p \in SuppliedPaths(lastCall') : Escapes(fs, p))
       => IsTraversalError(lastResult')]_vars

\* C2: a call that is rejected for traversal leaves the filesystem as it
\* was; for rename_file this includes an escaping new_path with a valid
\* old_path.
C2_RejectedCallHasNoEffect ==
    [][IsTraversalError(lastResult') => fs' = fs]_vars

C2_Witness ==
    /\ lastCall.tool_name = "rename_file"
    /\ DOMAIN lastCall.tool_input = {"old_path", "new_path"}
    /\ lastCall.tool_input.old_path = <<"a">>
    /\ lastCall.tool_input.new_path = <<"..", "o", "l">>
    /\ IsTraversalError(lastResult)
    /\ nExec = 2
    /\ Lookup(fs, <<"r", "a">>).kind = "file"
    /\ Lookup(fs, <<"r", "a">>).content # Lookup(InitFS, <<"r", "a">>).content

\* C4: list_directory_tree started at a path inside the repository lists
\* only directories that canonicalize to the root or below it, and
\* search_in_files started there reports only lines of files that do.
C4_RecursiveToolsStayInside ==
    LET base == Resolve(fs, repo_path)
        start == Canonical(fs, lastCall.tool_input.path)
    IN /\ (/\ lastCall.tool_name = "list_directory_tree"
           /\ lastResult.kind = "tree"
           /\ IsUnder(start, base))
          => \A directory \in TreeDirs(fs, start,
                                       IF Has(lastCall.tool_input, "max_depth")
                                       THEN lastCall.tool_input.max_depth ELSE 4, 0) :
                IsUnder(Resolve(fs, directory), base)
       /\ (/\ lastCall.tool_name = "search_in_files"
           /\ lastResult.kind \in {"matches", "matches capped"}
           /\ IsUnder(start, base))
          => \A i \in 1..Len(lastResult.lines) :
                lastResult.lines[i].tag = "match"
                => IsUnder(Resolve(fs, base \o lastResult.lines[i].path), base)

(***************************************************************************)
(* The conversation as a record of the run                                 *)
(***************************************************************************)
ToolUses(message) == SelectSeq(message.content, LAMBDA b : Has(b, "toolUse"))

ResultText(block) == block.toolResult.content[1].text

\* the assistant messages whose tool calls were executed
Rounds == {k \in 1..(Len(messages) - 1) :
             messages[k].role = "assistant" /\ messages[k + 1].role = "user"}

LastMessage == messages[Len(messages)]

ReadTools == {"list_directory", "list_directory_tree", "search_in_files",
              "read_file", "read_file_lines"}
WriteTools == {"write_file", "create_file", "patch_file", "delete_file", "rename_file"}

\* the change records of the calls of messages[k..] that the conversation
\* shows to have succeeded
RECURSIVE ChangesFrom(_)
ChangesFrom(k) ==
    IF k >= Len(messages) THEN <<>>
    ELSE IF k \notin Rounds THEN ChangesFrom(k + 1)
    ELSE LET uses == ToolUses(messages[k])
             results == messages[k + 1].content
             Entry(j) ==
                 LET tool == uses[j].toolUse
                 IN IF tool.name \in WriteTools
                       /\ ResultText(results[j]).lead = "Successfully "
                    THEN <<Change(IF tool.name = "delete_file" THEN "(deleted) "
                                  ELSE IF tool.name = "rename_file" THEN "(renamed) "
                                  ELSE "",
                                  IF tool.name = "rename_file"
                                  THEN tool.input.old_path ELSE tool.input.path,
                                  IF tool.name = "rename_file"
                                  THEN tool.input.new_path ELSE <<>>)>>
                    ELSE <<>>
         IN Concat([j \in 1..Len(uses) |-> Entry(j)]) \o ChangesFrom(k + 2)

(***************************************************************************)
(* Claims about the conversation loop                                      *)
(***************************************************************************)
\* p passes through a symbolic link inside the repository
ThroughLink(f, p) ==
    \E n \in 1..Len(p) :
        Lookup(f, Resolve(f, repo_path) \o SubSeq(p, 1, n)).kind = "link"

\* the position of the last executed call in the conversation
LastCallRound == CHOOSE k \in Rounds :
                    /\ ToolUses(messages[k]) # <<>>
                    /\ \A m \in Rounds : m > k => ToolUses(messages[m]) = <<>>

AcceptedEarlier(p) ==
    \E k \in Rounds : \E j \in 1..Len(ToolUses(messages[k])) :
        /\ ~(k = LastCallRound /\ j = Len(ToolUses(messages[k])))
        /\ p \in SuppliedPaths([tool_input |-> ToolUses(messages[k])[j].toolUse.input])
        /\ ~IsTraversalError(ResultText(messages[k + 1].content[j]))

\* C3: once a component of a path that an earlier call accepted has been
\* replaced by a symbolic link that leads out of the repository, a call
\* on that path is rejected with a traversal error.
C3_RevalidatedEveryCall ==
    \A p \in SuppliedPaths(lastCall) :
        (/\ lastCall.tool_name \in PathTools
         /\ ThroughLink(fs, p)
         /\ Escapes(fs, p)
         /\ AcceptedEarlier(p))
        => IsTraversalError(lastResult)

\* every call of the endpoint so far was answered with tool_use
AllToolUse == Len(messages) = 2 * nConverse + 1

\* C5: when every round is answered with tool_use the endpoint is called
\* MAX_AGENT_ITERATIONS times and never once more, and the run then ends
\* with the exhaustion summary and the change records of all successful
\* write calls.
C5_ExhaustedAfterCap ==
    /\ nConverse <= MAX_AGENT_ITERATIONS
    /\ (pc = "exhausted") => (nConverse = MAX_AGENT_ITERATIONS /\ AllToolUse)
    /\ (nConverse = MAX_AGENT_ITERATIONS /\ AllToolUse)
       => /\ pc = "exhausted"
          /\ summary = ExhaustedSummary
          /\ files_changed = ChangesFrom(1)
          /\ ~ENABLED Next

C5_Witness ==
    /\ pc = "exhausted"
    /\ nConverse = MAX_AGENT_ITERATIONS
    /\ Len(files_changed) > MAX_AGENT_ITERATIONS - ScriptLen
    /\ \E i \in 1..Len(files_changed) : files_changed[i].tag = "(renamed) "

AllReadClass ==
    \A k \in Rounds : \A j \in 1..Len(ToolUses(messages[k])) :
        ToolUses(messages[k])[j].toolUse.name \in ReadTools

\* C6: when the k-th reply is the first that is not tool_use and it is
\* end_turn, the run ends after k calls of the endpoint with the summary of
\* that reply, and with no change record when every tool call was a read.
C6_EndTurnEndsRun ==
    (stop_reason = "end_turn")
    => /\ pc = "done"
       /\ nConverse = iteration
       /\ Len(messages) = 2 * nConverse
       /\ LastMessage.role = "assistant"
       /\ (LastMessage.content = <<TextBlock(<<"done">>)>> => summary = <<"done">>)
       /\ (AllReadClass => files_changed = <<>>)
       /\ ~ENABLED Next

C6_Witness ==
    /\ stop_reason = "end_turn"
    /\ nConverse = 2
    /\ messages[2].content = <<ReadA>>
    /\ ResultText(messages[3].content[1]).kind = "content"
    /\ summary = <<"done">>
    /\ files_changed = <<>>

HasText(content) == \E i \in 1..Len(content) : Has(content[i], "text")

TextsOf(content) ==
    LET blocks == SelectSeq(content, LAMBDA b : Has(b, "text"))
    IN [i \in 1..Len(blocks) |-> blocks[i].text]

\* the texts of the blocks, each but the first preceded by a line break
RECURSIVE Joined(_, _)
Joined(content, first) ==
    IF content = <<>> THEN <<>>
    ELSE IF ~Has(Head(content), "text") THEN Joined(Tail(content), first)
    ELSE (IF first THEN <<>> ELSE <<"\n">>) \o Head(content).text
         \o Joined(Tail(content), FALSE)

\* C7 as stated: the summary of an end_turn reply is the concatenation of
\* its text blocks, and the placeholder exactly when it has none.
C7_SummaryIsConcatenation ==
    (pc = "done" /\ stop_reason = "end_turn")
    => /\ HasText(LastMessage.content) => summary = Concat(TextsOf(LastMessage.content))
       /\ (summary = Placeholder) <=> ~HasText(LastMessage.content)

\* C7 amended: the summary of an end_turn reply is its text blocks in
\* order with a line break between consecutive blocks, and the placeholder
\* when it has no text block.
C7_SummaryIsJoinedByLineBreaks ==
    (pc = "done" /\ stop_reason = "end_turn")
    => summary = IF HasText(LastMessage.content)
                 THEN Joined(LastMessage.content, TRUE) ELSE Placeholder

C7_Witness ==
    /\ pc = "done"
    /\ stop_reason = "end_turn"
    /\ LastMessage.content = <<TextBlock(<<"did">>), DeleteA, TextBlock(<<"this">>)>>
    /\ summary = <<"did", "\n", "this">>

\* C8: the tool calls of a reply are executed once each, in the order of
\* the blocks, each on the filesystem the one before left: create_file of
\* l followed by read_file, patch_file and write_file of l act on the file
\* just created.
C8_CallsRunInOrder ==
    \A k \in Rounds :
        (messages[k].content = PlanRound)
        => LET results == messages[k + 1].content
               r == [j \in 1..Len(results) |-> ResultText(results[j])]
           IN /\ Len(results) = 4
              /\ r[1].kind \in {"created", "already exists, use write_file"}
              /\ (r[1].kind = "created")
                 => /\ r[2].kind = "content" /\ r[2].text = <<"x">>
                    /\ r[3].kind = "patched"
                    /\ r[4].kind = "wrote"
              /\ (k + 1 = Len(messages))
                 => Lookup(fs, <<"r", "l">>) = FileNode(<<"x", "x">>)

C8_Witness ==
    /\ Len(messages) = 3
    /\ messages[2].content = PlanRound
    /\ ResultText(messages[3].content[1]).kind = "created"
    /\ ResultText(messages[3].content[3]).kind = "patched"
    /\ Lookup(fs, <<"r", "l">>) = FileNode(<<"x", "x">>)

\* the results of executing the calls uses[j..] one after the other from f
RECURSIVE ResultsFrom(_, _, _)
ResultsFrom(uses, j, f) ==
    IF j > Len(uses) THEN <<>>
    ELSE LET r == execute_tool(uses[j].toolUse.name, uses[j].toolUse.input, f)
         IN <<r.res>> \o ResultsFrom(uses, j + 1, r.fs)

\* C9: a tool_use round appends one user message that holds one result per
\* toolUse block of the assistant message, in the same order, with the id
\* of its block and the result text of the executor for that call.
C9_OneResultPerToolUse ==
    /\ (stop_reason = "tool_use" /\ pc # "failed")
       => (LastMessage.role = "user" /\ Len(messages) = 2 * nConverse + 1)
    /\ \A k \in 1..(Len(messages) - 1) :
          (messages[k].role = "assistant")
          => LET uses == ToolUses(messages[k])
                 results == messages[k + 1].content
             IN /\ messages[k + 1].role = "user"
                /\ (k + 2 <= Len(messages)) => messages[k + 2].role = "assistant"
                /\ Len(results) = Len(uses)
                /\ \A j \in 1..Len(results) :
                      /\ DOMAIN results[j] = {"toolResult"}
                      /\ results[j].toolResult.toolUseId = uses[j].toolUse.toolUseId
                      /\ Len(results[j].toolResult.content) = 1
                /\ (k = 2)
                   => [j \in 1..Len(results) |-> ResultText(results[j])]
                      = ResultsFrom(uses, 1, InitFS)

C9_Witness ==
    /\ Len(messages) = 5
    /\ messages[2].content = <<TextBlock(<<"thinking">>)>>
    /\ messages[3].content = <<>>
    /\ messages[4].content = <<WriteA, DeleteA, RenameDAtoA, Bogus>>
    /\ Len(messages[5].content) = 4
    /\ ResultText(messages[5].content[4]).kind = "Unknown tool"
    /\ messages[5].content[3].toolResult.toolUseId = "t3"

\* C10: a reply with any other stop reason ends the run at once, with the
\* summary taken from the texts of that reply and the changes made so far.
C10_UnexpectedStopEndsRun ==
    (stop_reason \notin {"none", "end_turn", "tool_use"})
    => /\ pc = "done"
       /\ Len(messages) = 2 * nConverse
       /\ LastMessage.role = "assistant"
       /\ summary = IF HasText(LastMessage.content)
                    THEN Joined(LastMessage.content, TRUE) ELSE Placeholder
       /\ files_changed = ChangesFrom(1)
       /\ ~ENABLED Next

C10_Witness ==
    /\ stop_reason = "max_tokens"
    /\ pc = "done"
    /\ LastMessage.content = <<DeleteA>>
    /\ summary = Placeholder
    /\ nConverse = 2
    /\ files_changed # <<>>
    /\ Lookup(fs, <<"r", "a">>).kind = "file"

(***************************************************************************)
(* Bookkeeping of changes and of failed calls                              *)
(***************************************************************************)
\* the record kept for a call of a write-class tool, by the tool's identity
RecordOf(tool) ==
    CASE tool.name \in {"write_file", "create_file", "patch_file"}
           -> Change("", tool.input.path, <<>>)
      [] tool.name = "delete_file" -> Change("(deleted) ", tool.input.path, <<>>)
      [] tool.name = "rename_file"
           -> Change("(renamed) ", tool.input.old_path, tool.input.new_path)

\* the calls of the rounds messages[k..] with their results, in the order
\* in which they were executed
RECURSIVE CallsFrom(_)
CallsFrom(k) ==
    IF k >= Len(messages) THEN <<>>
    ELSE IF k \notin Rounds THEN CallsFrom(k + 1)
    ELSE LET uses == ToolUses(messages[k])
             results == messages[k + 1].content
         IN [j \in 1..Len(uses) |->
                [tool |-> uses[j].toolUse, res |-> ResultText(results[j])]]
            \o CallsFrom(k + 2)

NotAnError(tool, res) == tool.name \in WriteTools /\ ~StartsWithError(res)

\* C11: files_changed holds a record for a call if and only if the tool is
\* write-class and the result of the call does not start with "Error"; the
\* record is that of the tool: the path for write, create and patch, the
\* path marked deleted for delete, both paths for rename.
C11_RecordIffWriteSucceeded ==
    LET calls == SelectSeq(CallsFrom(1), LAMBDA c : NotAnError(c.tool, c.res))
    IN files_changed = [i \in 1..Len(calls) |-> RecordOf(calls[i].tool)]

C11_Witness ==
    /\ Len(messages) = 5
    /\ messages[2].content = <<WriteA, DeleteA, RenameDAtoA, Bogus>>
    /\ messages[4].content = FileErrorsRound
    /\ files_changed = <<Change("", <<"a">>, <<>>),
                         Change("(deleted) ", <<"a">>, <<>>),
                         Change("(renamed) ", <<"d", "a">>, <<"a">>)>>
    /\ StartsWithError(ResultText(messages[5].content[1]))
    /\ StartsWithError(ResultText(messages[5].content[5]))

Succeeded(tool, res) == tool.name \in WriteTools /\ res.lead = "Successfully "

\* C12: files_changed has one entry per successful write-class call, the
\* i-th entry is that of the i-th such call in the order of execution, two
\* successful writes of one path give two entries, and a step only ever
\* appends to the list.
C12_ChangesKeptInOrder ==
    /\ [](LET calls == SelectSeq(CallsFrom(1), LAMBDA c : Succeeded(c.tool, c.res))
          IN /\ Len(files_changed) = Len(calls)
             /\ \A i \in 1..Len(calls) :
                   files_changed[i].path = IF calls[i].tool.name = "rename_file"
                                           THEN calls[i].tool.input.old_path
                                           ELSE calls[i].tool.input.path)
    /\ [][/\ Len(files_changed') >= Len(files_changed)
          /\ SubSeq(files_changed', 1, Len(files_changed)) = files_changed]_vars

C12_Witness ==
    /\ Len(messages) = 5
    /\ messages[2].content = PlanRound
    /\ messages[4].content = <<WriteA, DeleteA, RenameDAtoA, Bogus>>
    /\ Len(files_changed) = 6
    /\ files_changed[1] = files_changed[2]
    /\ files_changed[2] = files_changed[3]
    /\ files_changed[4] = Change("", <<"a">>, <<>>)
    /\ files_changed[6].tag = "(renamed) "

\* the number of toolUse blocks of the rounds messages[k..]
RECURSIVE UsesFrom(_)
UsesFrom(k) ==
    IF k >= Len(messages) THEN 0
    ELSE IF k \notin Rounds THEN UsesFrom(k + 1)
    ELSE Len(ToolUses(messages[k])) + UsesFrom(k + 2)

\* C13: a call that fails does not end the round or the loop: every toolUse
\* block of the round is executed and answered, the error text is the
\* result of the call that failed, and the loop is then in its next
\* iteration, about to call the endpoint.
C13_FailedCallDoesNotAbort ==
    /\ nExec = UsesFrom(1)
    /\ \A k \in Rounds :
          LET uses == ToolUses(messages[k])
              results == messages[k + 1].content
              r == [j \in 1..Len(results) |-> ResultText(results[j])]
          IN /\ Len(results) = Len(uses)
             /\ (messages[k].content = FileErrorsRound)
                => /\ StartsWithError(r[2])
                   /\ (r[1].kind = "wrote")
                      => /\ r[2].kind \in {"does not exist", "Path traversal blocked"}
                         /\ r[3].kind = "old_text found several times"
                         /\ r[5].kind = "deleted"
                   /\ IsTraversalError(r[4])
                   /\ r[5].kind \in {"deleted", "does not exist", "is not a file, only files can be deleted",
                                     "Path traversal blocked"}
             /\ (messages[k].content = OtherErrorsRound)
                => /\ r[1] = Err("Invalid regex pattern")
                   /\ r[2] = Err("Command timed out")
                   /\ r[3] = Err("Unknown tool")
                   /\ StartsWithError(r[4])
                   /\ r[5].kind \in {"wrote", "does not exist, use create_file", "is not a file"}
    /\ (Len(messages) = 2 * nConverse + 1 /\ nConverse < MAX_AGENT_ITERATIONS)
       => (pc = "running" /\ iteration = nConverse + 1)

C13_Witness ==
    /\ Len(messages) = 5
    /\ messages[2].content = OtherErrorsRound
    /\ ResultText(messages[3].content[4]) = ExecErr("write_file", "missing field")
    /\ ResultText(messages[3].content[5]).kind = "wrote"
    /\ messages[4].content = FileErrorsRound
    /\ ResultText(messages[5].content[2]) = Err("does not exist")
    /\ ResultText(messages[5].content[3]).num = 2
    /\ ResultText(messages[5].content[5]).kind = "deleted"
    /\ pc = "running"

(***************************************************************************)
(* Failures of the endpoint and of the handlers                            *)
(***************************************************************************)
\* C14: when the call of the endpoint fails the failure leaves run_agent at
\* once: the call is made once, no tool is executed, the conversation, the
\* filesystem and the changes stay as they were, nothing follows, and no
\* summary is returned.
C14_TransportFailurePropagates ==
    /\ [][(pc' = "failed")
          => /\ pc = "running"
             /\ nConverse' = nConverse + 1
             /\ UNCHANGED <<fs, messages, files_changed, nExec, lastCall, summary>>]_vars
    /\ [](pc = "failed" => (summary = <<>> /\ ~ENABLED Next))

C14_Witness ==
    /\ pc = "failed"
    /\ nConverse = 3
    /\ Len(messages) = 5
    /\ messages[4].content = OtherErrorsRound
    /\ files_changed # <<>>
    /\ summary = <<>>

\* C15: execute_tool returns a text for every tool name, input and
\* filesystem: never an exception, "Error: Unknown tool" for a name outside
\* the catalogue, and for a failure the handler did not expect (a missing
\* field, a parent that is a regular file) the text "Error executing" that
\* names the tool.
C15_ExecuteToolAlwaysReturnsText ==
    (lastCall # NoCall)
    => /\ lastResult.lead # "raise"
       /\ lastResult.lead \in {"Error: ", "Error executing ", "Error running command: ",
                               "Successfully ", "", "(file is empty)", "(empty directory)",
                               "No matches found", "STDOUT:\n", "STDERR:\n", "EXIT CODE: "}
       /\ (lastCall.tool_name \notin ToolNames) => lastResult = Err("Unknown tool")
       /\ (lastResult.lead = "Error executing ") => lastResult.text = <<lastCall.tool_name>>
       /\ (lastCall.tool_name \in ToolNames /\ lastCall.tool_input = <<>>)
          => lastResult = ExecErr(lastCall.tool_name, "missing field")
       /\ (lastCall.tool_name = "create_file" /\ lastCall.tool_input = [path |-> <<"l", "a">>])
          => lastResult \in {ExecErr("create_file", "missing field"),
                             ExecErr("create_file", "not a directory")}

C15_Witness ==
    /\ lastCall.tool_name = "create_file"
    /\ lastCall.tool_input = [path |-> <<"a", "l">>, content |-> <<"x">>]
    /\ Lookup(fs, <<"r", "a">>).kind = "file"
    /\ lastResult = ExecErr("create_file", "not a directory")

(***************************************************************************)
(* Tools on the text of a file                                             *)
(***************************************************************************)
\* the file a path of TargetPaths names
TargetOf(call) == Resolve(fs, repo_path) \o call.tool_input.path

\* the positions at which old occurs in content
Positions(content, old) ==
    {i \in 0..(Len(content) - Len(old)) : SubSeq(content, i + 1, i + Len(old)) = old}

\* C16: patch_file of a file in which old_text occurs at more than one
\* position, overlapping occurrences included, fails with the ambiguity
\* error and leaves the file as it was; when old_text does not occur it
\* fails with the not-found error and the file is as it was.
C16_AmbiguousPatchRejected ==
    [][(lastCall'.tool_name = "patch_file" /\ IsFile(fs, TargetOf(lastCall')))
       => LET content == Lookup(fs, TargetOf(lastCall')).content
              n == Cardinality(Positions(content, lastCall'.tool_input.old_text))
          IN /\ (n > 1) => /\ lastResult'.lead = "Error: "
                           /\ lastResult'.kind = "old_text found several times"
                           /\ fs' = fs
             /\ (n = 0) => /\ lastResult' = Err("old_text not found")
                           /\ fs' = fs]_vars

\* call is a write_file or create_file call with its two fields
IsWriteCall(call, tool_name) ==
    call.tool_name = tool_name /\ DOMAIN call.tool_input = {"path", "content"}

\* C17: write_file of a path that does not exist fails and creates
\* nothing; create_file of a path that exists fails and changes nothing;
\* after a successful create_file a write_file of the same path succeeds,
\* and after every successful write_file or create_file the file holds the
\* content of that call.
C17_WriteNeedsFileCreateNeedsNone ==
    [][/\ (/\ IsWriteCall(lastCall', "write_file")
           /\ ~Exists(fs, Canonical(fs, lastCall'.tool_input.path)))
          => (StartsWithError(lastResult') /\ fs' = fs)
       /\ (/\ IsWriteCall(lastCall', "create_file")
           /\ Exists(fs, Canonical(fs, lastCall'.tool_input.path)))
          => (StartsWithError(lastResult') /\ fs' = fs)
       /\ (/\ IsWriteCall(lastCall, "create_file")
           /\ lastResult = Success("created")
           /\ IsWriteCall(lastCall', "write_file")
           /\ lastCall'.tool_input.path = lastCall.tool_input.path)
          => lastResult' = Success("wrote")
       /\ (/\ \/ IsWriteCall(lastCall', "write_file")
              \/ IsWriteCall(lastCall', "create_file")
           /\ ~StartsWithError(lastResult'))
          => Lookup(fs', Canonical(fs', lastCall'.tool_input.path))
             = FileNode(lastCall'.tool_input.content)]_vars

C17_Witness ==
    /\ nExec = 2
    /\ IsWriteCall(lastCall, "write_file")
    /\ lastCall.tool_input = [path |-> <<"l">>, content |-> <<"\n", "x">>]
    /\ lastResult = Success("wrote")
    /\ ~Exists(InitFS, <<"r", "l">>)
    /\ Lookup(fs, <<"r", "l">>) = FileNode(<<"\n", "x">>)
    /\ Lookup(fs, <<"r", "a">>) = Lookup(InitFS, <<"r", "a">>)
    /\ Lookup(fs, <<"r", "d", "a">>) = Lookup(InitFS, <<"r", "d", "a">>)

RangeErrors == {Err("start_line must be >= 1"), Err("end_line must be >= start_line")}

\* C18: read_file_lines with end_line < start_line or start_line < 1
\* returns the range error whatever the path names: a file, a directory or
\* nothing at all.
C18_RangeCheckedBeforeFilesystem ==
    [][(/\ lastCall'.tool_name = "read_file_lines"
        /\ \/ lastCall'.tool_input.end_line < lastCall'.tool_input.start_line
           \/ lastCall'.tool_input.start_line < 1)
       => (lastResult' \in RangeErrors /\ fs' = fs)]_vars

\* the positions of the line ends of content
Breaks(content) == {i \in 1..Len(content) : content[i] = "\n"}

\* the position of the k-th line end, 0 for k = 0
Break(content, k) ==
    IF k = 0 THEN 0
    ELSE CHOOSE i \in Breaks(content) : Cardinality({j \in Breaks(content) : j <= i}) = k

\* the number of lines of content
LineCount(content) ==
    Cardinality(Breaks(content))
    + (IF content # <<>> /\ content[Len(content)] # "\n" THEN 1 ELSE 0)

\* line k of content, without its line end
LineAt(content, k) ==
    SubSeq(content, Break(content, k - 1) + 1,
           IF k <= Cardinality(Breaks(content)) THEN Break(content, k) - 1
           ELSE Len(content))

\* C19: read_file_lines of a file of L lines with 1 <= start <= L and
\* end >= start returns the lines start..min(end, L) in order, each with
\* its own line number, also when end > L; with start > L it returns an
\* error.
C19_LinesSelectedAndClamped ==
    [][(lastCall'.tool_name = "read_file_lines" /\ IsFile(fs, TargetOf(lastCall')))
       => LET content == Lookup(fs, TargetOf(lastCall')).content
              L == LineCount(content)
              start == lastCall'.tool_input.start_line
              end == lastCall'.tool_input.end_line
              last == IF end < L THEN end ELSE L
              lines == lastResult'.lines
          IN /\ (1 <= start /\ start <= L /\ end >= start)
                => /\ ~StartsWithError(lastResult')
                   /\ lastResult'.kind = "lines"
                   /\ Len(lines) = last - start + 1
                   /\ \A i \in 1..Len(lines) :
                         /\ lines[i].num = start + i - 1
                         /\ lines[i].text = LineAt(content, start + i - 1)
             /\ (start > L) => StartsWithError(lastResult')
             /\ fs' = fs]_vars

C19_Witness ==
    /\ lastCall.tool_name = "read_file_lines"
    /\ lastCall.tool_input = [path |-> <<"a">>, start_line |-> 2, end_line |-> 4]
    /\ Lookup(fs, <<"r", "a">>).content = <<"\n", "x", "\n">>
    /\ lastResult.kind = "lines"
    /\ lastResult.lines = <<Line("line", <<>>, 2, <<"x">>)>>

(***************************************************************************)
(* run_command                                                             *)
(***************************************************************************)
\* commands that begin, once in lower case and without the whitespace
\* around them, with rm -rf /, rm -rf ~, git push or git reset --hard
DenyListed == {CmdPush, CmdRmSibling, CmdRmHome, CmdReset}

\* C20: run_command of a command that matches a deny-listed prefix after
\* lower-casing and stripping returns the error and runs nothing: the
\* filesystem is as it was.
C20_DenyListedCommandNotRun ==
    [][(/\ lastCall'.tool_name = "run_command"
        /\ DOMAIN lastCall'.tool_input = {"command"}
        /\ lastCall'.tool_input.command \in DenyListed)
       => (lastResult' = Err("is blocked for safety") /\ fs' = fs)]_vars

C20_Witness ==
    /\ lastCall = [tool_name |-> "run_command", tool_input |-> [command |-> CmdRmSibling]]
    /\ lastResult = Err("is blocked for safety")
    /\ nExec = 2
    /\ Lookup(fs, <<"r", "d">>).kind = "link"
    /\ Lookup(fs, <<"r2", "a">>).kind = "file"

\* the command of the last call prints n and m characters and exits with k
Emitted(n, m, k) ==
    lastCall = [tool_name |-> "run_command", tool_input |-> [command |-> CmdEmit(n, m, k)]]

\* what the command produced, before any cut
Combined(n, m, k) == JoinBlank(output_parts(Outcome(fs, Yes(n), Yes(m), k, 0)))

EndsWith(t, suffix) ==
    Len(t) >= Len(suffix) /\ SubSeq(t, Len(t) - Len(suffix) + 1, Len(t)) = suffix

Contains(t, part) ==
    \E i \in 1..(Len(t) - Len(part) + 1) : SubSeq(t, i, i + Len(part) - 1) = part

\* C21: when the combined output of a command is longer than 10000
\* characters, the result is that output cut to 10000 characters, it ends
\* in the truncation marker, and it still reports the exit code of the
\* command.
C21_TruncatedOutputKeepsExitCode ==
    \A n \in EmitSizes, m \in ErrSizes, k \in ExitCodes :
        (Emitted(n, m, k) /\ Len(Combined(n, m, k)) > output_cap)
        => /\ lastResult.text = SubSeq(Combined(n, m, k), 1, output_cap) \o TruncationMarker
           /\ EndsWith(lastResult.text, TruncationMarker)
           /\ Contains(lastResult.text, ExitLabel \o Decimal(k))

\* the part of C21 the code keeps: the cut and the marker
C21_CutToCapWithMarker ==
    \A n \in EmitSizes, m \in ErrSizes, k \in ExitCodes :
        Emitted(n, m, k)
        => IF Len(Combined(n, m, k)) > output_cap
           THEN /\ lastResult.text = SubSeq(Combined(n, m, k), 1, output_cap) \o TruncationMarker
                /\ Len(lastResult.text) = output_cap + Len(TruncationMarker)
           ELSE /\ lastResult.text = Combined(n, m, k)
                /\ EndsWith(lastResult.text, ExitLabel \o Decimal(k))

\* a truncated result never holds the exit code
C21_ExitCodeLost ==
    \A n \in EmitSizes, m \in ErrSizes, k \in ExitCodes :
        (Emitted(n, m, k) /\ Len(Combined(n, m, k)) > output_cap)
        => ~Contains(lastResult.text, ExitLabel \o Decimal(k))

C21_Truncated ==
    /\ Emitted(9979, 0, 3)
    /\ lastResult.kind = "output truncated"
    /\ EndsWith(lastResult.text, ExitLabel \o TruncationMarker)

C21_NotTruncated ==
    /\ Emitted(9978, 0, 3)
    /\ lastResult.kind = "output"
    /\ Len(lastResult.text) = output_cap

(***************************************************************************)
(* run_command that exceeds the timeout                                    *)
(***************************************************************************)
TimesOut(use) ==
    /\ use.toolUse.name = "run_command"
    /\ use.toolUse.input = [command |-> CmdSleep]

\* the round just finished executed a command that ran into the timeout,
\* and the endpoint has not been called since
TimedOutRound ==
    /\ Len(messages) - 1 \in Rounds
    /\ Len(messages) = 2 * nConverse + 1
    /\ \E j \in 1..Len(ToolUses(messages[Len(messages) - 1])) :
          TimesOut(ToolUses(messages[Len(messages) - 1])[j])

\* C22: a run_command call whose command exceeds the timeout returns the
\* timeout error text as its result; the tool calls after it in the round
\* are executed and answered, and the loop then makes its next call of the
\* endpoint (the count of the calls, which goes up by one with each, moves
\* on).
C22_TimeoutReportedThenLoopGoesOn ==
    /\ [](\A k \in Rounds :
            LET uses == ToolUses(messages[k])
                results == messages[k + 1].content
            IN /\ Len(results) = Len(uses)
               /\ \A j \in 1..Len(uses) :
                     /\ results[j].toolResult.toolUseId = uses[j].toolUse.toolUseId
                     /\ TimesOut(uses[j])
                        => ResultText(results[j]) = Err("Command timed out"))
    /\ [](TimedOutRound => pc = "running")
    /\ [][nConverse' \in {nConverse, nConverse + 1}]_vars
    /\ \A odd \in {0, 1} :
          (TimedOutRound /\ nConverse % 2 = odd) ~> (nConverse % 2 = 1 - odd)

C22_Witness ==
    /\ Len(messages) = 4
    /\ messages[2].content = OtherErrorsRound
    /\ TimesOut(ToolUses(messages[2])[2])
    /\ ResultText(messages[3].content[2]) = Err("Command timed out")
    /\ ResultText(messages[3].content[3]) = Err("Unknown tool")
    /\ ResultText(messages[3].content[5]).kind = "wrote"
    /\ nConverse = 2

(***************************************************************************)
(* The conversation                                                        *)
(***************************************************************************)
\* C23: the conversation starts with one user message, the default prompt
\* built from the ticket or the prompt of the caller, and the roles
\* alternate user, assistant, user, ...; when the loop has ended in done,
\* the last message is the assistant reply whose text is the summary.
C23_OneUserPromptRolesAlternate ==
    (pc # "idle")
    => /\ Len(messages) >= 1
       /\ \E user_prompt \in Prompts :
             messages[1] = Message("user", <<TextBlock(user_prompt)>>)
       /\ \A i \in 1..Len(messages) :
             messages[i].role = IF i % 2 = 1 THEN "user" ELSE "assistant"
       /\ (pc = "done")
          => /\ LastMessage.role = "assistant"
             /\ Len(messages) = 2 * nConverse
             /\ HasText(LastMessage.content)
                => summary = Joined(LastMessage.content, TRUE)

C23_Witness ==
    /\ pc = "done"
    /\ Len(messages) = 4
    /\ messages[1] = Message("user", <<TextBlock(<<"custom prompt">>)>>)
    /\ messages[2].content = <<TextBlock(<<"thinking">>)>>
    /\ messages[3] = Message("user", <<>>)
    /\ messages[4].content = <<TextBlock(<<"cut">>), TextBlock(<<"off">>)>>
    /\ summary = <<"cut", "\n", "off">>

IsPrefix(a, b) == Len(a) <= Len(b) /\ SubSeq(b, 1, Len(a)) = a

\* C24: the conversation only grows, and every call of the endpoint is
\* handed all of it: the call of round k hands over 2k-1 messages, which
\* are those of the call before followed by the assistant reply of that
\* round and one user message of tool results; the system prompt and the
\* tool schemas are the same in every call.
C24_ConversationAppendOnlySentInFull ==
    [][/\ IsPrefix(messages, messages')
       /\ (nConverse' # nConverse)
          => /\ sent'.messages = messages
             /\ Len(sent'.messages) = 2 * iteration - 1
             /\ sent'.system = <<[text |-> effective_system]>>
             /\ sent'.toolConfig = [tools |-> TOOL_DEFINITIONS]
             /\ (nConverse > 0)
                => /\ sent'.system = sent.system
                   /\ sent'.toolConfig = sent.toolConfig
                   /\ Len(sent'.messages) = Len(sent.messages) + 2
                   /\ IsPrefix(sent.messages, sent'.messages)
                   /\ sent'.messages[Len(sent.messages) + 1].role = "assistant"
                   /\ sent'.messages[Len(sent.messages) + 2].role = "user"
                   /\ \A b \in 1..Len(sent'.messages[Len(sent.messages) + 2].content) :
                         Has(sent'.messages[Len(sent.messages) + 2].content[b], "toolResult")]_vars

C24_Witness ==
    /\ nConverse = 3
    /\ Len(sent.messages) = 5
    /\ sent.messages = messages
    /\ sent.messages[4].content = FileErrorsRound
    /\ Len(sent.messages[5].content) = 5
    /\ sent.system = <<[text |-> "custom system prompt"]>>
    /\ pc = "failed"

(***************************************************************************)
(* No rollback                                                             *)
(***************************************************************************)
\* the paths a write-class call names
PathsOf(tool) ==
    IF tool.name = "rename_file" THEN {tool.input.old_path, tool.input.new_path}
    ELSE {tool.input.path}

\* what a write-class call that succeeded leaves in filesystem f
Effect(tool, f) ==
    CASE tool.name \in {"write_file", "create_file"}
           -> /\ IsFile(f, Join(repo_path, tool.input.path))
              /\ Lookup(f, Resolve(f, Join(repo_path, tool.input.path))).content
                    = tool.input.content
      [] tool.name = "patch_file" -> IsFile(f, Join(repo_path, tool.input.path))
      [] tool.name = "delete_file" -> ~Exists(f, Join(repo_path, tool.input.path))
      [] tool.name = "rename_file"
           -> /\ ~Exists(f, Join(repo_path, tool.input.old_path))
              /\ IsFile(f, Join(repo_path, tool.input.new_path))

\* the filesystem after the calls uses[j..] made one after the other
RECURSIVE FsAfter(_, _, _)
FsAfter(uses, j, f) ==
    IF j > Len(uses) THEN f
    ELSE FsAfter(uses, j + 1,
                 execute_tool(uses[j].toolUse.name, uses[j].toolUse.input, f).fs)

\* C25: a call that fails undoes nothing.  In a round, the filesystem is
\* that of its calls made one after the other; files_changed keeps every
\* record it had; and a write-class call that succeeded before a call that
\* failed has its record in files_changed and its effect in the
\* filesystem, unless a later call of the round worked on the same path.
C25_NoRollback ==
    [][(Len(messages') = Len(messages) + 2)
       => LET uses == ToolUses(messages'[Len(messages) + 1])
              results == messages'[Len(messages) + 2].content
              ok == {i \in 1..Len(uses) :
                        Succeeded(uses[i].toolUse, ResultText(results[i]))}
              failed == {j \in 1..Len(uses) : StartsWithError(ResultText(results[j]))}
              added == SubSeq(files_changed', Len(files_changed) + 1, Len(files_changed'))
          IN /\ IsPrefix(files_changed, files_changed')
             /\ fs' = FsAfter(uses, 1, fs)
             /\ Len(added) = Cardinality(ok)
             /\ \A i \in ok :
                   (\E j \in failed : j > i)
                   => /\ added[Cardinality({h \in ok : h <= i})] = RecordOf(uses[i].toolUse)
                      /\ (\A h \in (i + 1)..Len(uses) :
                             /\ uses[h].toolUse.name # "run_command"
                             /\ h \in ok
                                => PathsOf(uses[h].toolUse) \cap PathsOf(uses[i].toolUse) = {})
                         => Effect(uses[i].toolUse, fs')]_vars

\* second round: a is written, deleted and made again by a rename, then a
\* call fails; the first round wrote d/a and deleted it after three failures
C25_Witness ==
    /\ Len(messages) = 5
    /\ messages[2].content = FileErrorsRound
    /\ messages[4].content = <<WriteA, DeleteA, RenameDAtoA, Bogus>>
    /\ ResultText(messages[3].content[1]).lead = "Successfully "
    /\ ResultText(messages[3].content[5]).lead = "Successfully "
    /\ ResultText(messages[5].content[1]).lead = "Successfully "
    /\ ResultText(messages[5].content[4]) = Err("Unknown tool")
    /\ Len(files_changed) = 4

(***************************************************************************)
(* Two invocations                                                         *)
(***************************************************************************)
\* invocation inv run alone from filesystem f
RECURSIVE Alone(_, _)
Alone(inv, f) ==
    IF inv.next > Len(inv.script) THEN [inv |-> inv, fs |-> f]
    ELSE LET tool == inv.script[inv.next].toolUse
             r == execute_tool_in(inv.root, tool.name, tool.input, f)
         IN Alone(AfterCall(inv, r), r.fs)

Finished(inv) == inv.next > Len(inv.script)

\* the part of filesystem f below root
Below(f, root) == [q \in {x \in DOMAIN f : IsUnder(x, root)} |-> f[q]]

\* C26: two invocations with distinct roots are independent under every
\* interleaving of their calls: when an invocation has finished, its tool
\* results and its change list are those of the invocation run alone, and
\* when both have finished the content of each root is that left by its
\* invocation run alone.
C26_InvocationsIndependent ==
    (pair # NoPair)
    => \A i \in 1..2 :
          LET alone == Alone(Invocation(pair[i].root, pair[i].script), InitFS)
          IN /\ Finished(pair[i])
                => /\ pair[i].tool_results = alone.inv.tool_results
                   /\ pair[i].files_changed = alone.inv.files_changed
             /\ (Finished(pair[1]) /\ Finished(pair[2]))
                => Below(fs, pair[i].root) = Below(alone.fs, pair[i].root)

\* the calls of invocation 1 name paths below its root and make no link
StaysInside(script) == script \in {<<ReadA, WriteA>>, <<ReadDA, DeleteA, RenameDAtoA>>}

\* the part of C26 that holds: invocations whose calls stay below their
\* roots are independent
C26_IndependentWhenInside ==
    (pair # NoPair /\ StaysInside(pair[1].script)) => C26_InvocationsIndependent

\* invocation 1 read a file of the root of invocation 2 after invocation 2
\* had written it
C26_ReadPeerFile ==
    /\ pair # NoPair
    /\ pair[2].root = <<"r2">>
    /\ pair[1].script = <<ReadSibling, WriteA>>
    /\ pair[2].script = <<WriteA, ReadA>>
    /\ Finished(pair[1])
    /\ ResultText(pair[1].tool_results[1]).text = <<"\n">>

(***************************************************************************)
(* Termination                                                             *)
(***************************************************************************)
Terminal == pc \in {"done", "exhausted", "failed"}

\* C27: run_agent ends: it returns as done, returns as exhausted or lets a
\* failure of the endpoint through, and then does nothing more; the round
\* counter starts at 1, goes up by one with every tool-use round that is
\* followed by another round, never changes otherwise and never exceeds
\* MAX_AGENT_ITERATIONS.
C27_RunAgentTerminates ==
    /\ <>Terminal
    /\ [](Terminal => ~ENABLED Next)
    /\ [](iteration \in 1..MAX_AGENT_ITERATIONS)
    /\ [](pc = "done" => stop_reason # "tool_use")
    /\ [](pc = "exhausted"
           => (summary = ExhaustedSummary /\ nConverse = MAX_AGENT_ITERATIONS))
    /\ [][/\ iteration' \in {iteration, iteration + 1}
          /\ (iteration' = iteration + 1)
             <=> (Len(messages') = Len(messages) + 2 /\ pc' = "running")]_vars

C27_Witness ==
    /\ pc = "exhausted"
    /\ iteration = MAX_AGENT_ITERATIONS
    /\ Len(messages) = 2 * MAX_AGENT_ITERATIONS + 1
    /\ messages[2].content = OtherErrorsRound
    /\ summary = ExhaustedSummary

\* C28: patch_file of a file in which old_text occurs at exactly one
\* position succeeds; the file then holds the text before the occurrence,
\* new_text, and the text after it, and nothing else in the filesystem has
\* changed.
C28_UniquePatchReplacesOccurrence ==
    [][(lastCall'.tool_name = "patch_file" /\ IsFile(fs, TargetOf(lastCall')))
       => LET target == TargetOf(lastCall')
              content == Lookup(fs, target).content
              old_text == lastCall'.tool_input.old_text
              at == Positions(content, old_text)
          IN (Cardinality(at) = 1)
             => LET i == CHOOSE i \in at : TRUE
                IN /\ lastResult' = Success("patched")
                   /\ DOMAIN fs' = DOMAIN fs
                   /\ fs'[target].kind = "file"
                   /\ fs'[target].content =
                         SubSeq(content, 1, i) \o lastCall'.tool_input.new_text
                         \o SubSeq(content, i + Len(old_text) + 1, Len(content))
                   /\ \A q \in DOMAIN fs \ {target} : fs'[q] = fs[q]]_vars

C28_Witness ==
    /\ lastCall.tool_name = "patch_file"
    /\ lastCall.tool_input = [path |-> <<"a">>, old_text |-> <<"x">>, new_text |-> <<"x", "x">>]
    /\ lastResult = Success("patched")
    /\ Lookup(fs, <<"r", "a">>).content = <<"\n", "x", "x", "\n">>

(***************************************************************************)
(* rename_file and delete_file                                             *)
(***************************************************************************)
\* the file or directory a path names in filesystem f
Named(f, path) == Resolve(f, Join(Resolve(f, repo_path), path))

\* C29: rename_file fails and changes nothing when old_path does not name
\* a regular file or when new_path names something that exists, old_path
\* itself included.  When it succeeds, the file is at new_path as it was at
\* old_path, old_path is gone, the missing directories above new_path have
\* been made, and nothing else has changed: no file is overwritten.
C29_RenameMovesWithoutOverwriting ==
    [][(/\ lastCall'.tool_name = "rename_file"
        /\ DOMAIN lastCall'.tool_input = {"old_path", "new_path"})
       => LET old == Named(fs, lastCall'.tool_input.old_path)
              new == Named(fs, lastCall'.tool_input.new_path)
              made == {q \in Prefixes(Parent(new)) : q \notin DOMAIN fs}
          IN /\ (~IsFile(fs, old) \/ Exists(fs, new))
                => (StartsWithError(lastResult') /\ fs' = fs)
             /\ StartsWithError(lastResult') => fs' = fs
             /\ ~StartsWithError(lastResult')
                => /\ lastResult' = Success("renamed")
                   /\ DOMAIN fs' = ((DOMAIN fs \ {old}) \cup {new}) \cup made
                   /\ fs'[new] = fs[old]
                   /\ \A q \in made : fs'[q] = DirNode
                   /\ \A q \in DOMAIN fs \ {old} : fs'[q] = fs[q]]_vars

C29_Witness ==
    /\ lastCall = [tool_name |-> "rename_file",
                   tool_input |-> [old_path |-> <<"a">>, new_path |-> <<"l", "l">>]]
    /\ lastResult = Success("renamed")
    /\ Lookup(fs, <<"r", "l">>) = DirNode
    /\ Lookup(fs, <<"r", "l", "l">>) = FileNode(<<"x">>)
    /\ <<"r", "a">> \notin DOMAIN fs

\* the last call deleted a file and this call names the same path
AfterDelete ==
    /\ lastCall.tool_name = "delete_file"
    /\ lastResult = Success("deleted")
    /\ Has(lastCall'.tool_input, "path")
    /\ lastCall'.tool_input.path = lastCall.tool_input.path

\* C30: delete_file fails and changes nothing when the path names nothing
\* or a directory; when it succeeds that file is gone and nothing else has
\* changed.  After it, read_file, write_file and delete_file of the same
\* path fail, and create_file of it succeeds.
C30_DeleteRemovesOneFile ==
    [][/\ (lastCall'.tool_name = "delete_file" /\ Has(lastCall'.tool_input, "path"))
          => LET target == Named(fs, lastCall'.tool_input.path)
             IN /\ ~IsFile(fs, target) => (StartsWithError(lastResult') /\ fs' = fs)
                /\ StartsWithError(lastResult') => fs' = fs
                /\ ~StartsWithError(lastResult')
                   => /\ lastResult' = Success("deleted")
                      /\ fs[target].kind = "file"
                      /\ DOMAIN fs' = DOMAIN fs \ {target}
                      /\ \A q \in DOMAIN fs' : fs'[q] = fs[q]
       /\ (AfterDelete /\ lastCall'.tool_name \in {"read_file", "write_file", "delete_file"})
          => (StartsWithError(lastResult') /\ fs' = fs)
       /\ (AfterDelete /\ lastCall'.tool_name = "create_file"
              /\ Has(lastCall'.tool_input, "content"))
          => /\ lastResult' = Success("created")
             /\ fs' = WriteText(fs, Named(fs, lastCall'.tool_input.path),
                                lastCall'.tool_input.content)]_vars

C30_Witness ==
    /\ nExec = 2
    /\ lastCall = [tool_name |-> "create_file",
                   tool_input |-> [path |-> <<"d", "a">>, content |-> <<"\n">>]]
    /\ lastResult = Success("created")
    /\ Lookup(fs, <<"r", "d", "a">>).content = <<"\n">>
    /\ Lookup(fs, <<"r", "a">>).content = <<"x">>

(***************************************************************************)
(* One call of search_in_files or list_directory_tree on a repository      *)
(* large enough for their caps: the files a, d/a and r hold about           *)
(* max_matches lines together, and the directory d is reached through      *)
(* three links and holds two links to itself, so that the tree of depth 6  *)
(* has about tree_cap entries.                                             *)
(***************************************************************************)
\* n lines "x"
XLines(n) == [i \in 1..(2 * n) |-> IF i % 2 = 1 THEN "x" ELSE "\n"]

\* the number of lines of a file (Absent: there is no such file)
Absent == 0 - 1
ALines == {Absent, 33}
DALines == 32..35
RLines == {Absent, 33}

LargeRepo(na, nd, nr) ==
    LET base == (<<>> :> DirNode) @@
                (<<"r">> :> DirNode) @@
                (<<"r", "d">> :> DirNode) @@
                (<<"r", "l">> :> LinkNode(<<"r", "d">>)) @@
                (<<"r", "o">> :> LinkNode(<<"r", "d">>)) @@
                (<<"r", "r2">> :> LinkNode(<<"r", "d">>)) @@
                (<<"r", "d", "l">> :> LinkNode(<<"r", "d">>)) @@
                (<<"r", "d", "o">> :> LinkNode(<<"r", "d">>)) @@
                (<<"r", "d", "a">> :> FileNode(XLines(nd))) @@
                (<<"r", "d", "r">> :> FileNode(<<>>))
        withA == IF na = Absent THEN base
                 ELSE base @@ (<<"r", "a">> :> FileNode(XLines(na)))
    IN IF nr = Absent THEN withA
       ELSE withA @@ (<<"r", "r">> :> FileNode(XLines(nr)))

\* the repository, a file, the directory d directly and through a link, and
\* a path that does not exist
LargePaths == {<<".">>, <<"a">>, <<"d">>, <<"l">>, <<"d", "d">>}

Depths == {0, 1, 2}
\* the max_depth of the deepest tree call: at 6 the tree of the repository has
\* 500 to 502 entries, around tree_cap
DeepEnough == 6

Patterns == {<<"x">>, <<>>, <<"x", "x">>, <<"(">>}

InitLarge ==
    /\ \E na \in ALines, nd \in DALines, nr \in RLines : fs = LargeRepo(na, nd, nr)
    /\ lastCall = NoCall
    /\ lastResult = NoResult
    /\ nExec = 0
    /\ InitAgentIdle

SearchOnce ==
    /\ nExec = 0
    /\ \/ \E p \in LargePaths, t \in Patterns :
             Call("search_in_files", [path |-> p, pattern |-> t])
       \/ \E p \in LargePaths :
             Call("search_in_files", [path |-> p, pattern |-> <<"x">>, file_pattern |-> "a"])

TreeOnce ==
    /\ nExec = 0
    /\ \/ \E p \in LargePaths : Call("list_directory_tree", [path |-> p])
       \/ \E p \in LargePaths, k \in Depths :
             Call("list_directory_tree", [path |-> p, max_depth |-> k])
       \/ Call("list_directory_tree", [path |-> <<".">>, max_depth |-> DeepEnough])

NextLarge ==
    \/ SearchOnce
    \/ TreeOnce

SpecLarge == InitLarge /\ [][NextLarge]_vars

(***************************************************************************)
(* C31                                                                     *)
(***************************************************************************)
\* the last call was a search_in_files call
Searched == lastCall.tool_name = "search_in_files"

\* the files a search goes through and reads: regular files below the
\* target with no ignored or hidden component
SearchedFiles(f, tool_input) ==
    LET target == resolve_safe_path(f, tool_input.path).target
        files == FilesToSearch(f, target,
                               IF Has(tool_input, "file_pattern")
                               THEN tool_input.file_pattern ELSE "")
    IN {p \in {files[i] : i \in 1..Len(files)} :
          /\ IsFile(f, p)
          /\ \A k \in (Len(repo_path) + 1)..Len(p) : ~Hidden(p[k])}

\* the matching lines of one file, as <<file, line number>>
FileHits(f, p, pattern) ==
    LET lines == SplitLines(Lookup(f, Resolve(f, p)).content)
    IN {<<p, k>> : k \in {j \in 1..Len(lines) : Search(pattern, lines[j])}}

\* every matching line of the searched files
Hits(f, tool_input) ==
    UNION {FileHits(f, p, tool_input.pattern) : p \in SearchedFiles(f, tool_input)}

MatchLines(res) == SelectSeq(res.lines, LAMBDA l : l.tag = "match")
HasSearchMarker(res) ==
    \E i \in 1..Len(res.lines) : res.lines[i].tag = "... (search capped"

\* the target of the last search is missing, or its pattern is no regex
SearchRejected ==
    \/ ~Exists(fs, resolve_safe_path(fs, lastCall.tool_input.path).target)
    \/ ~RegexValid(lastCall.tool_input.pattern)

\* C31: search_in_files returns at most 100 match lines, the truncation
\* marker is there exactly when matches were left out because of the cap,
\* and an invalid regex or a missing path gives an error text and no match.
C31_SearchCappedMarkerIffLeftOut ==
    Searched =>
        IF SearchRejected
        THEN StartsWithError(lastResult) /\ lastResult.lines = <<>>
        ELSE LET hits == Hits(fs, lastCall.tool_input)
                 shown == MatchLines(lastResult)
             IN /\ Len(shown) <= max_matches
                /\ HasSearchMarker(lastResult) <=> Cardinality(hits) > Len(shown)

\* what the code does: the marker is there as soon as the cap is reached,
\* whether or not a match was left out
C31_SearchCappedMarkerAtCap ==
    Searched =>
        IF SearchRejected
        THEN StartsWithError(lastResult) /\ lastResult.lines = <<>>
        ELSE LET hits == Hits(fs, lastCall.tool_input)
                 shown == MatchLines(lastResult)
             IN /\ Len(shown) = IF Cardinality(hits) <= max_matches
                                THEN Cardinality(hits) ELSE max_matches
                /\ HasSearchMarker(lastResult) <=> Cardinality(hits) >= max_matches
                /\ \A i \in 1..Len(shown) :
                      <<Resolve(fs, repo_path) \o shown[i].path, shown[i].num>> \in hits

\* exactly 100 matches, none left out, and the marker is there
C31_MarkerWithNothingLeftOut ==
    /\ Searched
    /\ ~SearchRejected
    /\ Cardinality(Hits(fs, lastCall.tool_input)) = max_matches
    /\ Len(MatchLines(lastResult)) = max_matches
    /\ HasSearchMarker(lastResult)

\* 101 matches, one left out
C31_MarkerWithMatchLeftOut ==
    /\ Searched
    /\ ~SearchRejected
    /\ Cardinality(Hits(fs, lastCall.tool_input)) = max_matches + 1
    /\ Len(MatchLines(lastResult)) = max_matches
    /\ HasSearchMarker(lastResult)

(***************************************************************************)
(* C32                                                                     *)
(***************************************************************************)
\* the last call was a list_directory_tree call that returned a tree
Treed == lastCall.tool_name = "list_directory_tree" /\ lastResult.kind = "tree"

TreeDepth == IF Has(lastCall.tool_input, "max_depth") THEN lastCall.tool_input.max_depth ELSE 4

\* the entries k levels below target, as the names leading to them: every
\* name but the last leads to a directory, none is ignored or hidden
RECURSIVE WalksAt(_, _, _)
WalksAt(f, target, k) ==
    IF k = 0 THEN {<<>>}
    ELSE UNION {{Append(w, n) : n \in {m \in Entries(f, target \o w) : ~Hidden(m)}} :
                w \in {v \in WalksAt(f, target, k - 1) : IsDir(f, target \o v)}}

\* the entries at most depth levels below target
Walks(f, target, depth) == UNION {WalksAt(f, target, k) : k \in 1..depth}

IsTreeMarker(l) == l.tag = "... (truncated"
EntryLines(res) == SelectSeq(res.lines, LAMBDA l : ~IsTreeMarker(l))
\* the number of levels a line lies below the starting directory
Level(l) == Len(l.text)

\* C32: the tree has at most 500 entry lines and at most one truncation
\* marker, the marker is there exactly when entries were cut, no entry is
\* more than max_depth (default 4) levels below the starting directory, and
\* in each directory the subdirectories come before the files.
C32_TreeBoundedAndOrdered ==
    Treed =>
        LET entries == EntryLines(lastResult)
            all == Walks(fs, resolve_safe_path(fs, lastCall.tool_input.path).target, TreeDepth)
        IN /\ Len(entries) <= tree_cap
           /\ Len(lastResult.lines) <= Len(entries) + 1
           /\ \A i \in 1..(Len(lastResult.lines) - 1) : ~IsTreeMarker(lastResult.lines[i])
           /\ Len(lastResult.lines) = Len(entries) + 1 <=> Cardinality(all) > Len(entries)
           /\ Len(entries) = IF Cardinality(all) <= tree_cap THEN Cardinality(all) ELSE tree_cap
           /\ \A j \in 1..Len(entries) :
                 /\ Level(entries[j]) <= TreeDepth
                 /\ entries[j].tag = "/" =>
                       \A i \in 1..(j - 1) :
                          (/\ Level(entries[i]) = Level(entries[j])
                           /\ \A k \in (i + 1)..(j - 1) : Level(entries[k]) > Level(entries[j]))
                          => entries[i].tag = "/"

\* a tree of 502 entries cut to 500, with entries at the deepest level
C32_Witness ==
    /\ Treed
    /\ lastCall.tool_input = [path |-> <<".">>, max_depth |-> DeepEnough]
    /\ Len(lastResult.lines) = tree_cap + 1
    /\ IsTreeMarker(lastResult.lines[tree_cap + 1])
    /\ Cardinality(Walks(fs, <<"r">>, DeepEnough)) = tree_cap + 2
    /\ \E i \in 1..tree_cap : Level(lastResult.lines[i]) = DeepEnough
    /\ \E i \in 1..tree_cap : lastResult.lines[i].tag = ""

\* a tree of exactly 500 entries, returned whole
C32_WholeTreeAtCap ==
    /\ Treed
    /\ Len(lastResult.lines) = tree_cap
    /\ ~IsTreeMarker(lastResult.lines[tree_cap])
    /\ Cardinality(Walks(fs, <<"r">>, DeepEnough)) = tree_cap

(***************************************************************************)
(* One tool-use block handed to _process_tool_calls, on a repository in    *)
(* which l does not exist or is a link to the file a, to the directory d   *)
(* or to a directory outside.  The contents written may hold a character   *)
(* that cannot be encoded, the names called may be outside the catalogue.  *)
(***************************************************************************)
OneRepos ==
    {InitFS,
     InitFS @@ (<<"r", "l">> :> LinkNode(<<"r", "a">>)),
     InitFS @@ (<<"r", "l">> :> LinkNode(<<"r", "d">>)),
     InitFS @@ (<<"r", "l">> :> LinkNode(<<"o">>))}

\* names that are not in the catalogue
OtherNames == {"bogus", "Write_File", "write", ""}

OtherInputs == {<<>>, [path |-> <<"a">>], [path |-> <<"a">>, content |-> <<"\n">>],
                [command |-> CmdEditFail]}

\* texts that cannot be encoded
BadTexts == {<<Surrogate>>, <<"x", Surrogate>>}

InitOne ==
    /\ fs \in OneRepos
    /\ lastCall = NoCall
    /\ lastResult = NoResult
    /\ nExec = 0
    /\ InitAgentIdle

\* _process_tool_calls on a message of one block
ProcessOne(tool_name, tool_input) ==
    LET st == process_tool_calls(<<ToolUse("t1", tool_name, tool_input)>>, 1,
                                 [fs |-> fs, files_changed |-> files_changed,
                                  tool_results |-> <<>>, calls |-> <<>>])
    IN /\ nExec = 0
       /\ fs' = st.fs
       /\ files_changed' = st.files_changed
       /\ nExec' = nExec + 1
       /\ lastCall' = st.calls[1]
       /\ lastResult' = st.tool_results[1].toolResult.content[1].text
       /\ UNCHANGED <<messages, iteration, pc, summary, nConverse, stop_reason,
                      effective_system, sent, pair>>

UnknownOne ==
    \E n \in OtherNames, i \in OtherInputs : ProcessOne(n, i)

WriteClassOne ==
    \/ \E i \in WriteInputs : ProcessOne("write_file", i)
    \/ \E i \in CreateInputs \cup {[path |-> <<"d", "l", "a">>, content |-> <<"x">>]} :
          ProcessOne("create_file", i)
    \/ \E i \in PatchInputs : ProcessOne("patch_file", i)
    \/ \E i \in ReadInputs : ProcessOne("delete_file", i)
    \/ \E i \in RenameInputs : ProcessOne("rename_file", i)

\* a write whose text cannot be encoded
BadWriteOne ==
    \/ \E p \in TextPaths \cup {<<"d", "a">>, <<"d", "l", "a">>}, c \in BadTexts :
          \/ ProcessOne("write_file", [path |-> p, content |-> c])
          \/ ProcessOne("create_file", [path |-> p, content |-> c])
    \/ \E c \in BadTexts :
          ProcessOne("patch_file", [path |-> <<"a">>, old_text |-> <<"x">>, new_text |-> c])

ReadClassOne ==
    \/ \E i \in ListInputs : ProcessOne("list_directory", i)
    \/ \E i \in TreeInputs : ProcessOne("list_directory_tree", i)
    \/ \E i \in SearchInputs : ProcessOne("search_in_files", i)
    \/ \E i \in ReadInputs : ProcessOne("read_file", i)
    \/ \E i \in ReadLinesInputs : ProcessOne("read_file_lines", i)

CommandOne ==
    \E c \in Commands \cup {CmdEditFail} : ProcessOne("run_command", [command |-> c])

MalformedOne ==
    \E t \in ToolNames : ProcessOne(t, <<>>)

NextOne ==
    \/ UnknownOne
    \/ WriteClassOne
    \/ BadWriteOne
    \/ ReadClassOne
    \/ CommandOne
    \/ MalformedOne

SpecOne == InitOne /\ [][NextOne]_vars

(***************************************************************************)
(* C33                                                                     *)
(***************************************************************************)
\* the names of the schema catalogue
Advertised == {TOOL_DEFINITIONS[i] : i \in 1..Len(TOOL_DEFINITIONS)}

\* C33: the names advertised in TOOL_DEFINITIONS are exactly the eleven
\* names the dispatcher handles, and a call with any other name returns the
\* unknown-tool error, leaves the filesystem as it was and adds no change
\* record.
C33_DispatchOverClosedSet ==
    /\ [](/\ Advertised = ToolNames
          /\ Len(TOOL_DEFINITIONS) = 11
          /\ Cardinality(ToolNames) = 11)
    /\ [][(nExec' = nExec + 1 /\ lastCall'.tool_name \notin Advertised)
          => /\ lastResult' = Err("Unknown tool")
             /\ StartsWithError(lastResult')
             /\ fs' = fs
             /\ files_changed' = files_changed]_vars

\* a call of Write_File, with the input of a write, changed nothing
C33_Witness ==
    /\ lastCall = [tool_name |-> "Write_File",
                   tool_input |-> [path |-> <<"a">>, content |-> <<"\n">>]]
    /\ lastResult = Err("Unknown tool")
    /\ Lookup(fs, <<"r", "a">>).content = <<"x">>
    /\ files_changed = <<>>
    /\ nExec = 1

(***************************************************************************)
(* C34                                                                     *)
(***************************************************************************)
\* the files of a filesystem with what they hold (links with their target)
Files(f) == [p \in {q \in DOMAIN f : f[q].kind # "dir"} |-> f[p]]

\* a step that is a call of a write-class tool
WriteClassCall == nExec' = nExec + 1 /\ lastCall'.tool_name \in WriteTools

\* the texts of the input of a call can be encoded
EncodableInput(tool_input) ==
    /\ Has(tool_input, "content") => Encodable(tool_input.content)
    /\ Has(tool_input, "new_text") => Encodable(tool_input.new_text)

\* C34: for the write-class tools, in every filesystem state and for every
\* input, the result starts with "Error" if and only if the call changed
\* no file's content or existence.
C34_ErrorIffNoFileChanged ==
    [][WriteClassCall
       => (StartsWithError(lastResult') <=> Files(fs') = Files(fs))]_vars

\* what the code keeps: a result is an error text or a success text; when
\* the texts of the input can be encoded, an error text means that no file
\* changed; create, delete and rename change a file when they succeed
C34_ErrorMeansNoChangeWhenEncodable ==
    [][WriteClassCall
       => /\ StartsWithError(lastResult') <=> lastResult'.lead # "Successfully "
          /\ (StartsWithError(lastResult') /\ EncodableInput(lastCall'.tool_input))
                => Files(fs') = Files(fs)
          /\ (~StartsWithError(lastResult')
              /\ lastCall'.tool_name \in {"create_file", "delete_file", "rename_file"})
                => Files(fs') # Files(fs)
          /\ StartsWithError(lastResult') <=> files_changed' = files_changed]_vars

\* write_file failed on a text that cannot be encoded: the result is an
\* error text, no change is recorded, and a has lost its content
C34_FailedWriteEmptiedFile ==
    /\ lastCall = [tool_name |-> "write_file",
                   tool_input |-> [path |-> <<"a">>, content |-> <<"x", Surrogate>>]]
    /\ StartsWithError(lastResult)
    /\ files_changed = <<>>
    /\ Lookup(fs, <<"r", "a">>) = FileNode(<<>>)

\* create_file failed the same way and left an empty file behind
C34_FailedCreateLeftFile ==
    /\ lastCall = [tool_name |-> "create_file",
                   tool_input |-> [path |-> <<"d", "l", "a">>, content |-> <<Surrogate>>]]
    /\ StartsWithError(lastResult)
    /\ files_changed = <<>>
    /\ Lookup(fs, <<"r", "d", "l", "a">>) = FileNode(<<>>)

\* write_file wrote the text the file already held
C34_WroteSameText ==
    /\ lastCall = [tool_name |-> "write_file",
                   tool_input |-> [path |-> <<"a">>, content |-> <<"x">>]]
    /\ lastResult = Success("wrote")
    /\ fs = InitFS

(***************************************************************************)
(* C35                                                                     *)
(***************************************************************************)
\* C35: the read-class tools leave the filesystem as it was and add no
\* change record; run_command adds no change record whatever its exit
\* code, also when the command created, changed or removed files of the
\* repository.
C35_ReadsAndCommandsLeaveNoRecord ==
    [][(nExec' = nExec + 1)
       => /\ lastCall'.tool_name \in ReadTools
                => fs' = fs /\ files_changed' = files_changed
          /\ lastCall'.tool_name = "run_command"
                => files_changed' = files_changed]_vars

\* a command removed a, created l and failed with exit code 3; nothing is
\* recorded
C35_Witness ==
    /\ lastCall = [tool_name |-> "run_command", tool_input |-> [command |-> CmdEditFail]]
    /\ lastResult.kind = "output"
    /\ lastResult.num = 3
    /\ ~StartsWithError(lastResult)
    /\ ~Exists(fs, <<"r", "a">>)
    /\ Lookup(fs, <<"r", "l">>) = FileNode(<<"\n">>)
    /\ files_changed = <<>>

\* a read of an existing file returned its content and recorded nothing
C35_ReadWitness ==
    /\ lastCall = [tool_name |-> "read_file", tool_input |-> [path |-> <<"d", "a">>]]
    /\ lastResult.kind = "content"
    /\ fs \in OneRepos
    /\ files_changed = <<>>

(***************************************************************************)
(* C36                                                                     *)
(***************************************************************************)
\* the files the input of a write-class call names, in filesystem f
Targets(call, f) ==
    IF call.tool_name = "rename_file"
    THEN {Named(f, call.tool_input.old_path), Named(f, call.tool_input.new_path)}
    ELSE {Named(f, call.tool_input.path)}

\* q is a directory made above one of the targets
MadeAbove(q, targets, f, g) ==
    /\ q \notin DOMAIN f
    /\ Lookup(g, q) = DirNode
    /\ \E t \in targets : q \in Prefixes(Parent(t))

\* C36: a write-class call that succeeds changes only what its input
\* names: the file at path for write, create, patch and delete, the files
\* at old_path and new_path for rename.  Everything else keeps its content
\* and its existence; create_file and rename_file may make the missing
\* directories above the file.
C36_WriteChangesOnlyNamedFiles ==
    [][(WriteClassCall /\ lastResult'.lead = "Successfully ")
       => LET targets == Targets(lastCall', fs)
          IN /\ \A q \in (DOMAIN fs \cup DOMAIN fs') \ targets :
                   \/ Lookup(fs', q) = Lookup(fs, q)
                   \/ /\ lastCall'.tool_name \in {"create_file", "rename_file"}
                      /\ MadeAbove(q, targets, fs, fs')
             /\ \A t \in targets : Lookup(fs', t).kind \in {"none", "file"}]_vars

\* create_file made d/l/a and the directory d/l; a, d/a and what lies
\* outside the repository are as they were
C36_Witness ==
    /\ lastCall = [tool_name |-> "create_file",
                   tool_input |-> [path |-> <<"d", "l", "a">>, content |-> <<"x">>]]
    /\ lastResult = Success("created")
    /\ Lookup(fs, <<"r", "d", "l", "a">>) = FileNode(<<"x">>)
    /\ Lookup(fs, <<"r", "d", "l">>) = DirNode
    /\ \A q \in DOMAIN InitFS : Lookup(fs, q) = InitFS[q]
    /\ files_changed = <<Change("", <<"d", "l", "a">>, <<>>)>>

\* delete_file removed d/a and left the directory d in place
C36_DeleteWitness ==
    /\ lastCall = [tool_name |-> "delete_file", tool_input |-> [path |-> <<"d", "a">>]]
    /\ lastResult = Success("deleted")
    /\ <<"r", "d", "a">> \notin DOMAIN fs
    /\ Lookup(fs, <<"r", "d">>) = DirNode

(***************************************************************************)
(* C37                                                                     *)
(***************************************************************************)
\* a step in which the endpoint answered with a stop signal other than
\* tool_use
OtherStop == nConverse' = nConverse + 1 /\ pc' # "failed" /\ stop_reason' # "tool_use"

\* the number of tool-use blocks of the rounds messages[k..]
RECURSIVE ExecutedFrom(_)
ExecutedFrom(k) ==
    IF k >= Len(messages) THEN 0
    ELSE IF k \notin Rounds THEN ExecutedFrom(k + 1)
    ELSE Len(ToolUses(messages[k])) + ExecutedFrom(k + 2)

\* C37: the tool-use blocks of a reply whose stop signal is end_turn or
\* any value other than tool_use are not executed: the filesystem and
\* files_changed stay as they were, no call is made, and no message of
\* tool results follows the reply.
C37_ToolsRunOnlyOnToolUse ==
    /\ [][OtherStop
          => /\ fs' = fs
             /\ files_changed' = files_changed
             /\ UNCHANGED execVars
             /\ messages' = Append(messages, messages'[Len(messages')])
             /\ messages'[Len(messages')].role = "assistant"
             /\ pc' = "done"]_vars
    /\ [](nExec = ExecutedFrom(1))
    /\ [](\A k \in 2..Len(messages) :
             messages[k].role = "user"
             => /\ k - 1 \in Rounds
                /\ Len(messages[k].content) = Len(ToolUses(messages[k - 1])))

\* an end-of-turn reply held a delete_file block for a: a is still there
C37_Witness ==
    /\ pc = "done"
    /\ stop_reason = "end_turn"
    /\ Len(messages) = 2
    /\ messages[2].content = <<TextBlock(<<"did">>), DeleteA, TextBlock(<<"this">>)>>
    /\ Lookup(fs, <<"r", "a">>) = FileNode(<<"x">>)
    /\ files_changed = <<>>
    /\ nExec = 0

\* the same with the stop signal max_tokens, after a round of tool calls
C37_OtherStopWitness ==
    /\ pc = "done"
    /\ stop_reason = "max_tokens"
    /\ Len(messages) = 4
    /\ messages[4].content = <<DeleteA>>
    /\ messages[2].content = <<ReadA>>
    /\ Lookup(fs, <<"r", "a">>) = FileNode(<<"x">>)
    /\ files_changed = <<>>
    /\ nExec = 1

(***************************************************************************)
(* C38                                                                     *)
(***************************************************************************)
\* the step that ends the run on the cap
LastRound == pc = "running" /\ pc' = "exhausted"

\* C38: a tool_use reply of the last permitted round is processed like
\* any other: its calls are executed on the filesystem and recorded in
\* files_changed and a user message with their results is appended, but
\* the endpoint is not called again.  An exhausted run holds
\* 2 * MAX_AGENT_ITERATIONS + 1 messages and ends with a user message that
\* was never sent.
C38_LastRoundIsProcessed ==
    /\ [][LastRound
          => LET uses == ToolUses(messages'[Len(messages) + 1])
                 results == messages'[Len(messages) + 2].content
                 ok == SelectSeq([j \in 1..Len(uses) |->
                                     [tool |-> uses[j].toolUse, res |-> ResultText(results[j])]],
                                 LAMBDA c : NotAnError(c.tool, c.res))
             IN /\ iteration = MAX_AGENT_ITERATIONS
                /\ stop_reason' = "tool_use"
                /\ Len(messages') = Len(messages) + 2
                /\ fs' = FsAfter(uses, 1, fs)
                /\ Len(results) = Len(uses)
                /\ nExec' = nExec + Len(uses)
                /\ files_changed'
                      = files_changed \o [i \in 1..Len(ok) |-> RecordOf(ok[i].tool)]]_vars
    /\ [](pc = "exhausted"
          => /\ Len(messages) = 2 * MAX_AGENT_ITERATIONS + 1
             /\ LastMessage.role = "user"
             /\ nConverse = MAX_AGENT_ITERATIONS
             /\ sent.messages = SubSeq(messages, 1, Len(messages) - 2))
    /\ [][pc = "exhausted" => UNCHANGED vars]_vars

\* the write of the last round is in the repository and in files_changed,
\* and its result is the last message
C38_Witness ==
    /\ pc = "exhausted"
    /\ Len(messages) = 2 * MAX_AGENT_ITERATIONS + 1
    /\ messages[Len(messages) - 1].content = <<WriteA>>
    /\ ResultText(LastMessage.content[1]) = Success("wrote")
    /\ files_changed # <<>>
    /\ files_changed[Len(files_changed)] = Change("", <<"a">>, <<>>)
    /\ Lookup(fs, <<"r", "a">>) = FileNode(<<"\n">>)
    /\ Len(sent.messages) = 2 * MAX_AGENT_ITERATIONS - 1
    /\ nConverse = MAX_AGENT_ITERATIONS

(***************************************************************************)
(* C39                                                                     *)
(***************************************************************************)
\* C39: when the call of the endpoint fails in a round after the first,
\* the repository keeps what the calls of the earlier rounds did to it,
\* and the caller receives neither a summary nor the change records of
\* those rounds.
C39_FailureKeepsWritesLosesRecords ==
    /\ [][fs' # fs
          => /\ Len(messages') = Len(messages) + 2
             /\ fs' = FsAfter(ToolUses(messages'[Len(messages) + 1]), 1, fs)]_vars
    /\ [][pc' = "failed" => (fs' = fs /\ files_changed' = files_changed)]_vars
    /\ [][pc = "failed" => UNCHANGED vars]_vars
    /\ [](pc = "failed" /\ nConverse > 1
          => /\ files_changed = ChangesFrom(1)
             /\ Returned = NoReturn
             /\ Len(messages) = 3 => fs = FsAfter(ToolUses(messages[2]), 1, InitFS))
    /\ [](pc \in {"done", "exhausted"} => Returned = <<summary, files_changed>>)

\* the call of round 2 failed: a was written, deleted and made again from
\* d/a by a rename in round 1; the repository differs from the start and
\* the three records are not returned
C39_Witness ==
    /\ pc = "failed"
    /\ nConverse = 2
    /\ Len(messages) = 3
    /\ messages[2].content = <<WriteA, DeleteA, RenameDAtoA, Bogus>>
    /\ Len(files_changed) = 3
    /\ Lookup(fs, <<"r", "a">>) = FileNode(<<"x", "\n">>)
    /\ <<"r", "d", "a">> \notin DOMAIN fs
    /\ fs # InitFS
    /\ Returned = NoReturn

\* the same after two rounds of calls
C39_LaterWitness ==
    /\ pc = "failed"
    /\ nConverse = 3
    /\ Len(messages) = 5
    /\ messages[2].content = <<WriteA, DeleteA, RenameDAtoA, Bogus>>
    /\ messages[4].content = <<ReadA>>
    /\ Len(files_changed) = 3
    /\ Lookup(fs, <<"r", "a">>) = FileNode(<<"x", "\n">>)
    /\ Returned = NoReturn

====
